---- MODULE Spec2Model ----
(***************************************************************************)
(* Model of the weather client of the WeatherCapstone dashboard            *)
(* (src/core/weather_api.py): construction and key validation, the         *)
(* current-weather lookup get_weather_from_api, the simulated history      *)
(* get_recent_weather_data and the forecast lookup get_weather_forecast.   *)
(*                                                                         *)
(* Python strings are sequences of one-character strings, so that strip(), *)
(* concatenation, substring tests and the key's regular expression are     *)
(* computed and not assumed.  None is a value of its own.  A parsed JSON   *)
(* value is a tagged record.  An exception is a record naming its class.   *)
(***************************************************************************)
EXTENDS Integers, Sequences, FiniteSets, TLC

\* ------------------------------------------------------------ bounds
\* Largest `days` argument tried for get_recent_weather_data.
MaxDays == 2

\* ------------------------------------------------------------ strings
\* None, as a value no string is equal to (a string holds single characters).
None == <<"None">>

\* The object() sentinel that marks an omitted api_key argument.
SENTINEL == <<"_SENTINEL">>

\* str.strip() removes these from both ends (the ASCII whitespace tried).
Whitespace == {" ", "\t", "\n", "\r"}

RECURSIVE LStrip(_)
LStrip(s) ==
    IF s # <<>> /\ Head(s) \in Whitespace THEN LStrip(Tail(s)) ELSE s

RECURSIVE RStrip(_)
RStrip(s) ==
    IF s # <<>> /\ s[Len(s)] \in Whitespace
    THEN RStrip(SubSeq(s, 1, Len(s) - 1))
    ELSE s

\* str.strip()
Strip(s) == RStrip(LStrip(s))

\* Truth value of an optional string: None and "" are false.
Truthy(x) == x # None /\ x # <<>>

\* needle in haystack, for two strings
IsSubstring(needle, hay) ==
    \E i \in 0..(Len(hay) - Len(needle)) :
        SubSeq(hay, i + 1, i + Len(needle)) = needle

\* c * n
Rep(c, n) == [i \in 1..n |-> c]

Lower == {"a","b","c","d","e","f","g","h","i","j","k","l","m",
          "n","o","p","q","r","s","t","u","v","w","x","y","z"}
Upper == {"A","B","C","D","E","F","G","H","I","J","K","L","M",
          "N","O","P","Q","R","S","T","U","V","W","X","Y","Z"}
Digit == {"0","1","2","3","4","5","6","7","8","9"}

\* The character class [a-zA-Z0-9] of the key's regular expression.
Alnum == Lower \cup Upper \cup Digit

\* The repetition count {32} of the key's regular expression.
KeyLen == 32

\* re.match(r'^[a-zA-Z0-9]{32}$', s): `$` also matches before one final
\* newline, so 32 class characters followed by "\n" match as well.
MatchesKeyPattern(s) ==
    LET body == IF s # <<>> /\ s[Len(s)] = "\n"
                   /\ Len(s) = KeyLen + 1
                THEN SubSeq(s, 1, Len(s) - 1)
                ELSE s
    IN  /\ Len(body) = KeyLen
        /\ \A i \in 1..Len(body) : body[i] \in Alnum

\* A well-formed key: exactly 32 ASCII letters or digits.
WellFormedKey(k) ==
    /\ k # None
    /\ k # SENTINEL
    /\ Len(k) = KeyLen
    /\ \A i \in 1..Len(k) : k[i] \in Alnum

\* ------------------------------------------------------------ exceptions
\* An exception: its class, the fixed part of its message, the text the
\* message embeds (a string, or the pieces of a wrapped message) and the
\* status code it embeds (0 when it embeds none).
Exc(type, msg, arg, status) ==
    [type |-> type, msg |-> msg, arg |-> arg, status |-> status]

NoExc == Exc("none", "", <<>>, 0)

\* str(e), as far as the model follows it: the message and what it embeds.
StrOf(e) == <<e.msg>> \o e.arg

\* ------------------------------------------------------------ keys tried
K32 == Rep("a", KeyLen)
KMixed == Rep("Z", KeyLen - 1) \o <<"7">>
KShort == Rep("a", KeyLen - 1)
KLong == Rep("a", KeyLen + 1)
KPadLeft == <<" ">> \o K32
KPadRight == K32 \o <<"\n">>
KUnderscore == Rep("a", KeyLen - 1) \o <<"_">>
KInvalid == <<"i","n","v","a","l","i","d","_","k","e","y">>
KEmpty == <<>>
KBlank == <<" ", " ", " ">>

\* What os.getenv("api_key") can hold when the module is imported.
EnvKeys == {None, K32, KPadRight, KInvalid}

\* Arguments tried for WeatherAPI(api_key).
KeyArgs == {SENTINEL, None, KEmpty, KBlank, K32, KMixed, KShort, KLong,
            KPadLeft, KPadRight, KUnderscore, KInvalid}

\* ------------------------------------------------------------ state
VARIABLES
    WEATHER_API_KEY,  \* module constant read from the environment
    client,           \* the WeatherAPI object last constructed, or NoClient
    ctor,             \* the last constructor call: its argument and outcome
    pc,               \* position of the call in progress
    call,             \* operation and arguments of the call in progress
    location_query,   \* local variable of the call in progress
    response,         \* result of requests.get in the call in progress
    outcome,          \* what the call in progress returned or raised
    sent,             \* the requests the call in progress has issued
    US_STATES,            \* module table: code -> full name
    STATE_ALIASES,        \* module table: alias -> code
    FULL_NAME_TO_ABBREV,  \* module table: upper-cased full name -> code
    validators,       \* the StateValidator objects constructed so far
    vcall,            \* the last StateValidator call: arguments and outcome
    earlier,          \* an earlier validate_state call kept for comparison
    all_states,       \* the dict last obtained from get_all_states
    app,              \* the application controller: how far it has got
    handler,          \* the GUI handler or feature call running or last run
    widgets,          \* what the window shows: status label, reading
    history           \* the rows appended to the history file

client_vars == <<WEATHER_API_KEY, client, ctor, pc, call, location_query,
                 response, outcome, sent>>

validator_vars == <<US_STATES, STATE_ALIASES, FULL_NAME_TO_ABBREV,
                    validators, vcall, earlier, all_states>>

gui_vars == <<app, handler, widgets, history>>

vars == <<client_vars, validator_vars, gui_vars>>

NoClient == [py |-> "no object"]
NoCall == [op |-> "none"]
Pending == [kind |-> "pending"]
NoResponse == [kind |-> "none"]

\* No constructor call to report.
NoCtor == [arg |-> None, result |-> "none", exc |-> NoExc, obj |-> NoClient]

Returned(v) == [kind |-> "return", value |-> v]
Raised(e) == [kind |-> "raise", exc |-> e]

\* ------------------------------------------------------------ construction
\* WeatherAPI.__init__: which key the new object stores.
StoredKeyMutEnvOnNone(api_key) ==
    IF api_key = SENTINEL \/ api_key = None THEN WEATHER_API_KEY ELSE api_key

StoredKey(api_key) ==
    IF api_key = SENTINEL THEN WEATHER_API_KEY ELSE api_key

\* WeatherAPI._validate_api_key: the exception raised, or NoExc.
ValidateApiKey(key) ==
    IF key = None
    THEN Exc("WeatherAPIError", "API key not found", <<>>, 0)
    ELSE IF key = <<>> \/ Strip(key) = <<>>
    THEN Exc("WeatherAPIError", "API key is empty", <<>>, 0)
    ELSE IF ~MatchesKeyPattern(Strip(key))
    THEN Exc("WeatherAPIError", "Invalid API key format", <<>>, 0)
    ELSE NoExc

CurrentUrl == "https://api.openweathermap.org/data/2.5/weather"
ForecastUrl == "https://api.openweathermap.org/data/2.5/forecast"

\* WeatherAPI(api_key): __init__ stores the key and the endpoint, then
\* validates; the caller gets an object only if validation raised nothing,
\* and an object constructed earlier is not touched by a failed call.
Construct(api_key) ==
    /\ pc = "idle"
    /\ LET key == StoredKey(api_key)
           err == ValidateApiKey(key)
           obj == [api_key |-> key, api_base_url |-> CurrentUrl]
       IN  /\ ctor' = [arg |-> api_key,
                       result |-> IF err = NoExc THEN "object" ELSE "raise",
                       exc |-> err,
                       obj |-> IF err = NoExc THEN obj ELSE NoClient]
           /\ client' = IF err = NoExc THEN obj ELSE client
    /\ UNCHANGED <<WEATHER_API_KEY, pc, call, location_query, response,
                   outcome, sent>>
    /\ UNCHANGED validator_vars
    /\ UNCHANGED gui_vars

\* ------------------------------------------------------------ JSON values
\* A parsed body: [j |-> its Python type, v |-> its content].
JNull == [j |-> "NoneType", v |-> <<>>]
JBool(b) == [j |-> "bool", v |-> b]
JNum(n) == [j |-> "number", v |-> n]
JStr(s) == [j |-> "str", v |-> s]
JArr(a) == [j |-> "list", v |-> a]
JObj(o) == [j |-> "dict", v |-> o]

\* The keys the code looks up, spelled out as strings.
KeyText(k) ==
    CASE k = "main" -> <<"m","a","i","n">>
      [] k = "weather" -> <<"w","e","a","t","h","e","r">>
      [] k = "description" -> <<"d","e","s","c","r","i","p","t","i","o","n">>
      [] k = "temp" -> <<"t","e","m","p">>
      [] k = "humidity" -> <<"h","u","m","i","d","i","t","y">>
      [] k = "list" -> <<"l","i","s","t">>
      [] k = "dt" -> <<"d","t">>

\* bool(x)
JTruthy(x) ==
    CASE x.j = "NoneType" -> FALSE
      [] x.j = "bool" -> x.v
      [] x.j = "number" -> x.v # 0
      [] x.j = "str" -> x.v # <<>>
      [] x.j = "list" -> x.v # <<>>
      [] x.j = "dict" -> DOMAIN x.v # {}

\* The result of evaluating an expression: a value, or an exception class.
Val(v) == [ok |-> TRUE, v |-> v, exc |-> "none"]
Err(class) == [ok |-> FALSE, v |-> JNull, exc |-> class]

\* `k in x` for a string key k: membership of a dict's keys, of a list's
\* items, substring of a string; the other types are not iterable.
PyIn(k, x) ==
    CASE x.j = "dict" -> Val(JBool(k \in DOMAIN x.v))
      [] x.j = "list" ->
           Val(JBool(\E i \in 1..Len(x.v) :
                         x.v[i].j = "str" /\ x.v[i].v = KeyText(k)))
      [] x.j = "str" -> Val(JBool(IsSubstring(KeyText(k), x.v)))
      [] OTHER -> Err("TypeError")

\* x[k] for a string key k
PyGetKey(x, k) ==
    CASE x.j = "dict" ->
           IF k \in DOMAIN x.v THEN Val(x.v[k]) ELSE Err("KeyError")
      [] OTHER -> Err("TypeError")

\* x[0]: a JSON object has only string keys, so 0 is never one of them.
PyGet0(x) ==
    CASE x.j = "dict" -> Err("KeyError")
      [] x.j = "list" -> IF x.v = <<>> THEN Err("IndexError") ELSE Val(x.v[1])
      [] x.j = "str" ->
           IF x.v = <<>> THEN Err("IndexError") ELSE Val(JStr(<<x.v[1]>>))
      [] OTHER -> Err("TypeError")

\* ------------------------------------------------------------ the lookup
WeatherAPIError(msg, arg, status) == Exc("WeatherAPIError", msg, arg, status)

\* An exception the interpreter raises: only its class matters here.
Builtin(class) == Exc(class, "", <<>>, 0)

\* `not city_name or not city_name.strip()`
CityRejectedMutNoStrip(city_name) == ~Truthy(city_name)

CityRejected(city_name) ==
    ~Truthy(city_name) \/ Strip(city_name) = <<>>

Comma == <<",">>
US == <<"U", "S">>

\* The country after `if state: ... if not country: country = "US"`.
CountryUsed(state, country) ==
    IF Truthy(state) /\ ~Truthy(country) THEN US ELSE country

\* location_query as built before the request.
LocationQueryMutNoCountryDefault(city_name, state, country) ==
    LET withState == IF Truthy(state)
                     THEN Strip(city_name) \o Comma \o Strip(state)
                     ELSE Strip(city_name)
    IN  IF Truthy(country)
        THEN withState \o Comma \o Strip(country)
        ELSE withState

LocationQuery(city_name, state, country) ==
    LET withState == IF Truthy(state)
                     THEN Strip(city_name) \o Comma \o Strip(state)
                     ELSE Strip(city_name)
        c == CountryUsed(state, country)
    IN  IF Truthy(c)
        THEN withState \o Comma \o Strip(c)
        ELSE withState

\* The request as requests.get receives it: endpoint, q and appid of the URL.
Request(endpoint, q, key) == [url |-> endpoint, q |-> q, appid |-> key]

\* What requests.get can do: raise one of the library's exceptions (named
\* with the classes it is an instance of; ConnectTimeout is both a
\* ConnectionError and a Timeout), or return a response.
TransportError(name, classes) ==
    [kind |-> "exception", name |-> name, classes |-> classes]

TransportErrors ==
    << TransportError("ReadTimeout", {"Timeout", "RequestException"}),
       TransportError("ConnectTimeout",
                      {"ConnectionError", "Timeout", "RequestException"}),
       TransportError("ConnectionError",
                      {"ConnectionError", "RequestException"}),
       TransportError("TooManyRedirects", {"RequestException"}) >>

\* The except clauses around requests.get, first match first.
TransportRaisesMutConnectionFirst(t) ==
    IF "ConnectionError" \in t.classes
    THEN WeatherAPIError("Network connection error", <<>>, 0)
    ELSE IF "Timeout" \in t.classes
    THEN WeatherAPIError("Request timed out", <<>>, 0)
    ELSE WeatherAPIError("Network error occurred: ", <<t.name>>, 0)

TransportRaises(t) ==
    IF "Timeout" \in t.classes
    THEN WeatherAPIError("Request timed out", <<>>, 0)
    ELSE IF "ConnectionError" \in t.classes
    THEN WeatherAPIError("Network connection error", <<>>, 0)
    ELSE WeatherAPIError("Network error occurred: ", <<t.name>>, 0)

\* The if/elif chain on response.status_code: the exception, or NoExc.
StatusRaises(r, q) ==
    IF r.status_code = 401
    THEN WeatherAPIError("Invalid API key", <<>>, 0)
    ELSE IF r.status_code = 404
    THEN Exc("KeyError", "Location not found", q, 0)
    ELSE IF r.status_code = 429
    THEN WeatherAPIError("API rate limit exceeded", <<>>, 0)
    ELSE IF r.status_code = 500
    THEN WeatherAPIError("OpenWeatherMap server error", <<>>, 0)
    ELSE IF r.status_code # 200
    THEN WeatherAPIError("API request failed with status ", r.text,
                         r.status_code)
    ELSE NoExc

\* The reading returned on success.
ReadingMutSwapped(temperature, description, humidity) ==
    [temperature |-> humidity,
     description |-> description,
     humidity |-> temperature]

Reading(temperature, description, humidity) ==
    [temperature |-> temperature,
     description |-> description,
     humidity |-> humidity]

\* The inner try around the three lookups: a KeyError becomes a
\* WeatherAPIError, anything else goes on to the outer handlers.
InnerHandler(class, key) ==
    IF class = "KeyError"
    THEN WeatherAPIError("Missing expected data in API response: ",
                         KeyText(key), 0)
    ELSE Builtin(class)

\* From response.json() to the return statement, before the outer handlers:
\* what the body of the try returns or raises for a 200 response.
ExtractReading(json) ==
    IF ~json.ok
    THEN Raised(WeatherAPIError("Invalid response format from API: ",
                                <<>>, 0))
    ELSE
    LET weather_data == json.data
        hasMain == PyIn("main", weather_data)
        hasWeather == PyIn("weather", weather_data)
        weather == PyGetKey(weather_data, "weather")
        first == PyGet0(weather.v)
        hasDescription == PyIn("description", first.v)
        main == PyGetKey(weather_data, "main")
        temperature == PyGetKey(main.v, "temp")
        description == PyGetKey(first.v, "description")
        humidity == PyGetKey(main.v, "humidity")
    IN  IF ~hasMain.ok THEN Raised(Builtin(hasMain.exc))
        ELSE IF ~hasMain.v.v \/ ~hasWeather.v.v
        THEN Raised(WeatherAPIError("Invalid response structure from API",
                                    <<>>, 0))
        ELSE IF ~weather.ok THEN Raised(Builtin(weather.exc))
        ELSE IF ~JTruthy(weather.v)
        THEN Raised(WeatherAPIError(
                        "Missing weather description in API response",
                        <<>>, 0))
        ELSE IF ~first.ok THEN Raised(Builtin(first.exc))
        ELSE IF ~hasDescription.ok THEN Raised(Builtin(hasDescription.exc))
        ELSE IF ~hasDescription.v.v
        THEN Raised(WeatherAPIError(
                        "Missing weather description in API response",
                        <<>>, 0))
        ELSE IF ~main.ok THEN Raised(InnerHandler(main.exc, "main"))
        ELSE IF ~temperature.ok
        THEN Raised(InnerHandler(temperature.exc, "temp"))
        ELSE IF ~description.ok
        THEN Raised(InnerHandler(description.exc, "description"))
        ELSE IF ~humidity.ok
        THEN Raised(InnerHandler(humidity.exc, "humidity"))
        ELSE Returned(Reading(temperature.v, description.v, humidity.v))

\* The handlers of the outer try: KeyError and ValueError pass unwrapped,
\* WeatherAPIError passes, any other Exception is wrapped.
OuterHandlerMutNoCatchAll(e) == e

OuterHandler(e) ==
    IF e.type \in {"KeyError", "ValueError"} THEN e
    ELSE IF e.type = "WeatherAPIError" THEN e
    ELSE WeatherAPIError("Unexpected error occurred: ", StrOf(e), e.status)

\* ------------------------------------------------------------ inputs
Rio == <<"R", "i", "o">>
FL == <<"F", "L">>
CA == <<"C", "A">>

\* Arguments tried: absent, empty, blank, plain and padded.
Cities == {None, <<>>, <<" ", "\t">>, Rio, <<" ">> \o Rio \o <<"\n">>}
States == {None, <<>>, <<" ">>, FL, <<" ">> \o FL \o <<" ">>}
Countries == {None, <<>>, <<" ">>, CA, CA \o <<" ">>}

\* Numbers of a payload are written in tenths: 753 is 75.3.
ClearSky == <<"c","l","e","a","r"," ","s","k","y">>

Main(temp, humidity) == JObj([temp |-> JNum(temp), humidity |-> JNum(humidity)])
Weather(description) == JArr(<<JObj([description |-> JStr(description)])>>)

GoodMain == Main(753, 600)
GoodWeather == Weather(ClearSky)

\* Well-formed bodies: the documented example; one whose values are all
\* false in Python and that carries a field the code does not read.
WellFormedBodies ==
    << JObj([main |-> GoodMain, weather |-> GoodWeather]),
       JObj([main |-> Main(0, 0), weather |-> Weather(<<>>),
             name |-> JStr(Rio)]) >>

\* Bodies that parse but lack something the code reads, in every shape
\* JSON allows.
IncompleteBodies ==
    << JObj(<<>>),
      JObj([weather |-> GoodWeather]),
      JObj([main |-> GoodMain]),
      JObj([main |-> GoodMain, weather |-> JArr(<<>>)]),
      JObj([main |-> GoodMain, weather |-> JNull]),
      JObj([main |-> GoodMain, weather |-> JNum(5)]),
      JObj([main |-> GoodMain, weather |-> JStr(ClearSky)]),
      JObj([main |-> GoodMain, weather |-> JObj([description |-> JStr(ClearSky)])]),
      JObj([main |-> GoodMain, weather |-> JArr(<<JObj(<<>>)>>)]),
      JObj([main |-> GoodMain, weather |-> JArr(<<JNull>>)]),
      JObj([main |-> GoodMain, weather |-> JArr(<<JStr(KeyText("description"))>>)]),
      JObj([main |-> GoodMain,
            weather |-> JArr(<<JArr(<<JStr(KeyText("description"))>>)>>)]),
      JObj([main |-> JObj([humidity |-> JNum(600)]), weather |-> GoodWeather]),
      JObj([main |-> JObj([temp |-> JNum(753)]), weather |-> GoodWeather]),
      JObj([main |-> JNull, weather |-> GoodWeather]),
      JObj([main |-> JArr(<<JNum(753), JNum(600)>>), weather |-> GoodWeather]),
      JNull,
      JNum(42),
      JStr(KeyText("main") \o <<" ">> \o KeyText("weather")),
      JArr(<<JStr(KeyText("main")), JStr(KeyText("weather"))>>) >>

\* response.json(): the parsed body, or a ValueError.
Parsed(data) == [ok |-> TRUE, data |-> data]
Unparsable == [ok |-> FALSE, data |-> JNull]

Response(status, text, json) ==
    [kind |-> "response", status_code |-> status, text |-> text,
     json |-> json]

\* Status codes other than 200 that are tried.
NotOkCodes == <<201, 401, 403, 404, 429, 500, 503>>

ErrorText == <<"e", "r", "r">>

OkResponse(body) == Response(200, <<>>, Parsed(body))
NotOkResponse(code) == Response(code, ErrorText, Unparsable)

\* Responses to the current-weather endpoint.
CurrentBodies == WellFormedBodies \o IncompleteBodies

CurrentResponses ==
    [i \in 1..Len(CurrentBodies) |-> OkResponse(CurrentBodies[i])]
    \o << Response(200, ErrorText, Unparsable),
          Response(404, <<>>, Parsed(JObj(<<>>))) >>
    \o [i \in 1..Len(NotOkCodes) |-> NotOkResponse(NotOkCodes[i])]

\* ------------------------------------------------------------ actions
Ops == {"get_weather_from_api", "get_recent_weather_data",
        "get_weather_forecast"}

\* The two operations that run the body of get_weather_from_api.
RunsLookup(c) ==
    c.op \in {"get_weather_from_api", "get_recent_weather_data"}

\* Where a finished get_weather_from_api goes: to its caller, which is
\* get_recent_weather_data or the program.
AfterLookup(c) ==
    IF c.op = "get_recent_weather_data" THEN "recent" ELSE "done"

\* A caller invokes an operation of a constructed client.
Call(op, city_name, state, country, days) ==
    /\ pc = "idle"
    /\ client # NoClient
    /\ pc' = "validate"
    /\ call' = [op |-> op, city_name |-> city_name, state |-> state,
                country |-> country, days |-> days]
    /\ location_query' = None
    /\ response' = NoResponse
    /\ outcome' = Pending
    /\ sent' = <<>>
    /\ ctor' = NoCtor
    /\ UNCHANGED <<WEATHER_API_KEY, client>>
    /\ UNCHANGED validator_vars
    /\ UNCHANGED gui_vars

\* get_weather_from_api: the city check and the query.
Validate ==
    /\ pc = "validate"
    /\ RunsLookup(call)
    /\ IF CityRejected(call.city_name)
       THEN /\ outcome' = Raised(OuterHandler(
                              Exc("ValueError", "City name cannot be empty",
                                  <<>>, 0)))
            /\ pc' = AfterLookup(call)
            /\ UNCHANGED location_query
       ELSE /\ location_query' =
                   LocationQuery(call.city_name, call.state, call.country)
            /\ pc' = "request"
            /\ UNCHANGED outcome
    /\ UNCHANGED <<WEATHER_API_KEY, client, ctor, call, response, sent>>
    /\ UNCHANGED validator_vars
    /\ UNCHANGED gui_vars

\* As SendRequest, but a timeout is answered by one more attempt.
SendRequestMutRetry(r) ==
    /\ pc = "request"
    /\ RunsLookup(call)
    /\ sent' = Append(sent, Request(client.api_base_url, location_query,
                                    client.api_key))
    /\ response' = r
    /\ IF r.kind = "exception"
       THEN IF "Timeout" \in r.classes /\ Len(sent) = 0
            THEN pc' = "request" /\ UNCHANGED outcome
            ELSE /\ outcome' = Raised(OuterHandler(TransportRaises(r)))
                 /\ pc' = AfterLookup(call)
       ELSE /\ pc' = "status"
            /\ UNCHANGED outcome
    /\ UNCHANGED <<WEATHER_API_KEY, client, ctor, call, location_query>>
    /\ UNCHANGED validator_vars
    /\ UNCHANGED gui_vars

\* get_weather_from_api: requests.get(api_url, timeout=10) and its except
\* clauses.  The provider's behaviour r is any of the modelled ones.
SendRequest(r) ==
    /\ pc = "request"
    /\ RunsLookup(call)
    /\ sent' = Append(sent, Request(client.api_base_url, location_query,
                                    client.api_key))
    /\ response' = r
    /\ IF r.kind = "exception"
       THEN /\ outcome' = Raised(OuterHandler(TransportRaises(r)))
            /\ pc' = AfterLookup(call)
       ELSE /\ pc' = "status"
            /\ UNCHANGED outcome
    /\ UNCHANGED <<WEATHER_API_KEY, client, ctor, call, location_query>>
    /\ UNCHANGED validator_vars
    /\ UNCHANGED gui_vars

\* get_weather_from_api: the status code of the response.
CheckStatus ==
    /\ pc = "status"
    /\ RunsLookup(call)
    /\ LET e == StatusRaises(response, location_query)
       IN  IF e # NoExc
           THEN /\ outcome' = Raised(OuterHandler(e))
                /\ pc' = AfterLookup(call)
           ELSE /\ pc' = "parse"
                /\ UNCHANGED outcome
    /\ UNCHANGED <<WEATHER_API_KEY, client, ctor, call, location_query,
                   response, sent>>
    /\ UNCHANGED validator_vars
    /\ UNCHANGED gui_vars

\* get_weather_from_api: parsing, the structure checks and the return.
Parse ==
    /\ pc = "parse"
    /\ RunsLookup(call)
    /\ LET o == ExtractReading(response.json)
       IN  outcome' = IF o.kind = "raise"
                      THEN Raised(OuterHandler(o.exc))
                      ELSE o
    /\ pc' = AfterLookup(call)
    /\ UNCHANGED <<WEATHER_API_KEY, client, ctor, call, location_query,
                   response, sent>>
    /\ UNCHANGED validator_vars
    /\ UNCHANGED gui_vars

\* ------------------------------------------------------------ recent data
\* random.uniform(-15, 15), in tenths: the two ends of the range.
Variations == {-150, 150}

\* base_temp + temp_variation: defined for a number (and a bool), a
\* TypeError for any other type of the payload's temp.
Addable(base_temp) == base_temp.j \in {"number", "bool"}

NumberOf(x) == IF x.j = "bool" THEN (IF x.v THEN 10 ELSE 0) ELSE x.v

\* The list get_recent_weather_data returns: one entry per day offset,
\* sorted by datetime, so the largest offset (the oldest day) comes first.
RecentData(base_temp, city_name, days, variation) ==
    [i \in 1..days |->
        [day_offset |-> days - i,
         temperature |-> NumberOf(base_temp) + variation[days - i + 1],
         city |-> city_name]]

RecentHandler(e) ==
    WeatherAPIError("Error generating recent weather data: ", StrOf(e),
                    e.status)

\* get_recent_weather_data, after its call of get_weather_from_api.
Recent ==
    /\ pc = "recent"
    /\ IF outcome.kind = "raise"
       THEN outcome' = Raised(RecentHandler(outcome.exc))
       ELSE IF call.days >= 1 /\ ~Addable(outcome.value.temperature)
       THEN outcome' = Raised(RecentHandler(Builtin("TypeError")))
       ELSE \E variation \in [1..call.days -> Variations] :
              outcome' = Returned(RecentData(outcome.value.temperature,
                                             call.city_name, call.days,
                                             variation))
    /\ pc' = "done"
    /\ UNCHANGED <<WEATHER_API_KEY, client, ctor, call, location_query,
                   response, sent>>
    /\ UNCHANGED validator_vars
    /\ UNCHANGED gui_vars

\* ------------------------------------------------------------ forecast
\* `[:40]`: 5 days of 8 three-hour intervals.
ForecastCap == 40

\* datetime.fromtimestamp(dt), as the day and the second of the day.
FromTimestamp(dt) ==
    [day |-> dt \div 86400, second |-> dt % 86400]

ForecastQueryMutNoStrip(city_name, state, country) ==
    LET q1 == IF Truthy(state)
              THEN city_name \o Comma \o state
              ELSE city_name
        country1 == IF Truthy(state) /\ ~Truthy(country) THEN US ELSE country
    IN  IF Truthy(country1) THEN q1 \o Comma \o country1 ELSE q1

\* location_query as get_weather_forecast builds it.
ForecastQuery(city_name, state, country) ==
    LET q1 == IF Truthy(state)
              THEN Strip(city_name) \o Comma \o Strip(state)
              ELSE Strip(city_name)
        country1 == IF Truthy(state) /\ ~Truthy(country) THEN US ELSE country
    IN  IF Truthy(country1) THEN q1 \o Comma \o Strip(country1) ELSE q1

ForecastHandlerMutReraise(e) == e

\* The only handler of get_weather_forecast: `except Exception`.
ForecastHandler(e) ==
    WeatherAPIError("Unexpected error occurred: ", StrOf(e), e.status)

\* The dictionary built from one item of the provider's list.
ForecastEntry(item, city_name) ==
    LET dt == PyGetKey(item, "dt")
        main == PyGetKey(item, "main")
        temp == PyGetKey(main.v, "temp")
        humidity == PyGetKey(main.v, "humidity")
        weather == PyGetKey(item, "weather")
        first == PyGet0(weather.v)
        description == PyGetKey(first.v, "description")
    IN  IF ~dt.ok THEN Err(dt.exc)
        ELSE IF dt.v.j \notin {"number", "bool"} THEN Err("TypeError")
        ELSE IF ~main.ok THEN Err(main.exc)
        ELSE IF ~temp.ok THEN Err(temp.exc)
        ELSE IF ~humidity.ok THEN Err(humidity.exc)
        ELSE IF ~weather.ok THEN Err(weather.exc)
        ELSE IF ~first.ok THEN Err(first.exc)
        ELSE IF ~description.ok THEN Err(description.exc)
        ELSE Val([datetime |-> FromTimestamp(NumberOf(dt.v)),
                  temperature |-> temp.v,
                  humidity |-> humidity.v,
                  description |-> description.v,
                  city |-> city_name])

ForecastItemsMutNoSlice(forecast_data) ==
    IF forecast_data.j # "dict" THEN Err("AttributeError")
    ELSE LET list == IF "list" \in DOMAIN forecast_data.v
                     THEN forecast_data.v.list
                     ELSE JArr(<<>>)
         IN  CASE list.j = "list" -> Val(list.v)
               [] list.j = "str" ->
                    Val([i \in 1..Len(list.v) |-> JStr(<<list.v[i]>>)])
               [] OTHER -> Err("TypeError")

\* forecast_data.get('list', [])[:40]: the items looped over, or the
\* exception of .get or of the slice.
ForecastItems(forecast_data) ==
    IF forecast_data.j # "dict" THEN Err("AttributeError")
    ELSE LET list == IF "list" \in DOMAIN forecast_data.v
                     THEN forecast_data.v.list
                     ELSE JArr(<<>>)
         IN  CASE list.j = "list" ->
                    Val(SubSeq(list.v, 1,
                               IF Len(list.v) < ForecastCap
                               THEN Len(list.v) ELSE ForecastCap))
               [] list.j = "str" ->
                    Val([i \in 1..(IF Len(list.v) < ForecastCap
                                   THEN Len(list.v) ELSE ForecastCap)
                           |-> JStr(<<list.v[i]>>)])
               [] OTHER -> Err("TypeError")

\* From the status check to the return statement, before the handler.
ProcessForecast(r, city_name) ==
    IF r.status_code # 200
    THEN Raised(WeatherAPIError("Forecast API request failed with status ",
                                <<>>, r.status_code))
    ELSE IF ~r.json.ok THEN Raised(Builtin("ValueError"))
    ELSE LET items == ForecastItems(r.json.data)
             entry == [i \in 1..Len(items.v) |->
                          ForecastEntry(items.v[i], city_name)]
         IN  IF ~items.ok THEN Raised(Builtin(items.exc))
             ELSE IF \E i \in 1..Len(items.v) : ~entry[i].ok
             THEN LET bad == CHOOSE i \in 1..Len(items.v) :
                                /\ ~entry[i].ok
                                /\ \A j \in 1..(i - 1) : entry[j].ok
                  IN  Raised(Builtin(entry[bad].exc))
             ELSE Returned([i \in 1..Len(items.v) |-> entry[i].v])

\* get_weather_forecast: the city check and the query.
ForecastValidate ==
    /\ pc = "validate"
    /\ call.op = "get_weather_forecast"
    /\ IF CityRejected(call.city_name)
       THEN /\ outcome' = Raised(ForecastHandler(
                              Exc("ValueError", "City name cannot be empty",
                                  <<>>, 0)))
            /\ pc' = "done"
            /\ UNCHANGED location_query
       ELSE /\ location_query' =
                   ForecastQuery(call.city_name, call.state, call.country)
            /\ pc' = "forecast_request"
            /\ UNCHANGED outcome
    /\ UNCHANGED <<WEATHER_API_KEY, client, ctor, call, response, sent>>
    /\ UNCHANGED validator_vars
    /\ UNCHANGED gui_vars

\* get_weather_forecast: requests.get(forecast_url, timeout=10).
ForecastRequest(r) ==
    /\ pc = "forecast_request"
    /\ sent' = Append(sent, Request(ForecastUrl, location_query,
                                    client.api_key))
    /\ response' = r
    /\ IF r.kind = "exception"
       THEN /\ outcome' = Raised(ForecastHandler(
                              Exc(r.name, "", <<r.name>>, 0)))
            /\ pc' = "done"
       ELSE /\ pc' = "forecast_process"
            /\ UNCHANGED outcome
    /\ UNCHANGED <<WEATHER_API_KEY, client, ctor, call, location_query>>
    /\ UNCHANGED validator_vars
    /\ UNCHANGED gui_vars

\* get_weather_forecast: the status check, the parse and the loop.
ForecastProcess ==
    /\ pc = "forecast_process"
    /\ LET o == ProcessForecast(response, call.city_name)
       IN  outcome' = IF o.kind = "raise"
                      THEN Raised(ForecastHandler(o.exc))
                      ELSE o
    /\ pc' = "done"
    /\ UNCHANGED <<WEATHER_API_KEY, client, ctor, call, location_query,
                   response, sent>>
    /\ UNCHANGED validator_vars
    /\ UNCHANGED gui_vars

\* The call is over: its caller has the reading, the list or the exception.
Return ==
    /\ pc = "done"
    /\ pc' = "idle"
    /\ call' = NoCall
    /\ location_query' = None
    /\ response' = NoResponse
    /\ outcome' = Pending
    /\ sent' = <<>>
    /\ UNCHANGED <<WEATHER_API_KEY, client, ctor>>
    /\ UNCHANGED validator_vars
    /\ UNCHANGED gui_vars

\* ------------------------------------------------------------ forecast inputs
\* Item i of a provider list: three hours apart.
Item(i) ==
    JObj([dt |-> JNum(10800 * i),
          main |-> Main(700 + i, 500 + i),
          weather |-> Weather(ClearSky)])

ItemList(n) == JArr([i \in 1..n |-> Item(i)])

ForecastBodies ==
    << JObj([list |-> ItemList(0)]),
       JObj([list |-> ItemList(2)]),
       JObj([list |-> ItemList(ForecastCap)]),
       JObj([list |-> ItemList(ForecastCap + 1)]),
       JObj([list |-> JArr(ItemList(ForecastCap).v \o
                           <<JObj([dt |-> JNum(10800)])>>)]),
       JObj([list |-> JArr(<<Item(1), JObj([main |-> GoodMain, weather |-> GoodWeather])>>)]),
       JObj([list |-> JArr(<<Item(1), JObj([dt |-> JNum(10800), weather |-> GoodWeather])>>)]),
       JObj([list |-> JArr(<<Item(1), JObj([dt |-> JNum(10800), main |-> GoodMain])>>)]),
       JObj([list |-> JArr(<<JObj([dt |-> JNum(10800), main |-> GoodMain,
                                   weather |-> JArr(<<>>)])>>)]),
       JObj([list |-> JNull]),
       JObj([list |-> JStr(ClearSky)]),
       JObj([main |-> GoodMain]),
       JArr(<<Item(1)>>),
       JNull >>

ForecastResponses ==
    [i \in 1..Len(ForecastBodies) |-> OkResponse(ForecastBodies[i])]
    \o << Response(200, ErrorText, Unparsable) >>
    \o [i \in 1..Len(NotOkCodes) |-> NotOkResponse(NotOkCodes[i])]

\* Everything requests.get is tried with, per endpoint.
CurrentBehaviours == TransportErrors \o CurrentResponses
ForecastBehaviours == TransportErrors \o ForecastResponses

\* ------------------------------------------------------------ state names
\* str.upper() and str.lower(), character by character: ASCII letters, and
\* two non-ASCII letters, one of which upper-cases to two characters.
AsciiLower == <<"a","b","c","d","e","f","g","h","i","j","k","l","m",
                "n","o","p","q","r","s","t","u","v","w","x","y","z">>
AsciiUpper == <<"A","B","C","D","E","F","G","H","I","J","K","L","M",
                "N","O","P","Q","R","S","T","U","V","W","X","Y","Z">>

UpperChar(c) ==
    IF \E i \in 1..Len(AsciiLower) : AsciiLower[i] = c
    THEN <<AsciiUpper[CHOOSE i \in 1..Len(AsciiLower) : AsciiLower[i] = c]>>
    ELSE IF c = "é" THEN <<"É">>
    ELSE IF c = "ß" THEN <<"S","S">>
    ELSE <<c>>

LowerChar(c) ==
    IF \E i \in 1..Len(AsciiUpper) : AsciiUpper[i] = c
    THEN <<AsciiLower[CHOOSE i \in 1..Len(AsciiUpper) : AsciiUpper[i] = c]>>
    ELSE IF c = "É" THEN <<"é">>
    ELSE <<c>>

RECURSIVE StrUpper(_)
StrUpper(s) == IF s = <<>> THEN <<>> ELSE UpperChar(Head(s)) \o StrUpper(Tail(s))

RECURSIVE StrLower(_)
StrLower(s) == IF s = <<>> THEN <<>> ELSE LowerChar(Head(s)) \o StrLower(Tail(s))

\* s.startswith(prefix)
StartsWith(s, prefix) ==
    /\ Len(prefix) <= Len(s)
    /\ SubSeq(s, 1, Len(prefix)) = prefix

\* s[:n]
Take(s, n) == SubSeq(s, 1, IF Len(s) < n THEN Len(s) ELSE n)

\* s.split(): the maximal runs of non-whitespace characters, in order.
RECURSIVE SplitFrom(_, _)
SplitFrom(s, word) ==
    IF s = <<>>
    THEN IF word = <<>> THEN <<>> ELSE <<word>>
    ELSE IF Head(s) \in Whitespace
    THEN (IF word = <<>> THEN <<>> ELSE <<word>>) \o SplitFrom(Tail(s), <<>>)
    ELSE SplitFrom(Tail(s), Append(word, Head(s)))

Split(s) == SplitFrom(s, <<>>)

\* A dict is the sequence of its <<key, value>> items in insertion order.
HasKey(d, k) == \E i \in 1..Len(d) : d[i][1] = k

Lookup(d, k) == d[CHOOSE i \in 1..Len(d) : d[i][1] = k][2]

\* The dict literal US_STATES.
US_STATES_Literal == <<
    <<<<"A","L">>, <<"A","l","a","b","a","m","a">>>>,
    <<<<"A","K">>, <<"A","l","a","s","k","a">>>>,
    <<<<"A","Z">>, <<"A","r","i","z","o","n","a">>>>,
    <<<<"A","R">>, <<"A","r","k","a","n","s","a","s">>>>,
    <<<<"C","A">>, <<"C","a","l","i","f","o","r","n","i","a">>>>,
    <<<<"C","O">>, <<"C","o","l","o","r","a","d","o">>>>,
    <<<<"C","T">>, <<"C","o","n","n","e","c","t","i","c","u","t">>>>,
    <<<<"D","E">>, <<"D","e","l","a","w","a","r","e">>>>,
    <<<<"F","L">>, <<"F","l","o","r","i","d","a">>>>,
    <<<<"G","A">>, <<"G","e","o","r","g","i","a">>>>,
    <<<<"H","I">>, <<"H","a","w","a","i","i">>>>,
    <<<<"I","D">>, <<"I","d","a","h","o">>>>,
    <<<<"I","L">>, <<"I","l","l","i","n","o","i","s">>>>,
    <<<<"I","N">>, <<"I","n","d","i","a","n","a">>>>,
    <<<<"I","A">>, <<"I","o","w","a">>>>,
    <<<<"K","S">>, <<"K","a","n","s","a","s">>>>,
    <<<<"K","Y">>, <<"K","e","n","t","u","c","k","y">>>>,
    <<<<"L","A">>, <<"L","o","u","i","s","i","a","n","a">>>>,
    <<<<"M","E">>, <<"M","a","i","n","e">>>>,
    <<<<"M","D">>, <<"M","a","r","y","l","a","n","d">>>>,
    <<<<"M","A">>, <<"M","a","s","s","a","c","h","u","s","e","t","t","s">>>>,
    <<<<"M","I">>, <<"M","i","c","h","i","g","a","n">>>>,
    <<<<"M","N">>, <<"M","i","n","n","e","s","o","t","a">>>>,
    <<<<"M","S">>, <<"M","i","s","s","i","s","s","i","p","p","i">>>>,
    <<<<"M","O">>, <<"M","i","s","s","o","u","r","i">>>>,
    <<<<"M","T">>, <<"M","o","n","t","a","n","a">>>>,
    <<<<"N","E">>, <<"N","e","b","r","a","s","k","a">>>>,
    <<<<"N","V">>, <<"N","e","v","a","d","a">>>>,
    <<<<"N","H">>, <<"N","e","w"," ","H","a","m","p","s","h","i","r","e">>>>,
    <<<<"N","J">>, <<"N","e","w"," ","J","e","r","s","e","y">>>>,
    <<<<"N","M">>, <<"N","e","w"," ","M","e","x","i","c","o">>>>,
    <<<<"N","Y">>, <<"N","e","w"," ","Y","o","r","k">>>>,
    <<<<"N","C">>, <<"N","o","r","t","h"," ","C","a","r","o","l","i","n","a">>>>,
    <<<<"N","D">>, <<"N","o","r","t","h"," ","D","a","k","o","t","a">>>>,
    <<<<"O","H">>, <<"O","h","i","o">>>>,
    <<<<"O","K">>, <<"O","k","l","a","h","o","m","a">>>>,
    <<<<"O","R">>, <<"O","r","e","g","o","n">>>>,
    <<<<"P","A">>, <<"P","e","n","n","s","y","l","v","a","n","i","a">>>>,
    <<<<"R","I">>, <<"R","h","o","d","e"," ","I","s","l","a","n","d">>>>,
    <<<<"S","C">>, <<"S","o","u","t","h"," ","C","a","r","o","l","i","n","a">>>>,
    <<<<"S","D">>, <<"S","o","u","t","h"," ","D","a","k","o","t","a">>>>,
    <<<<"T","N">>, <<"T","e","n","n","e","s","s","e","e">>>>,
    <<<<"T","X">>, <<"T","e","x","a","s">>>>,
    <<<<"U","T">>, <<"U","t","a","h">>>>,
    <<<<"V","T">>, <<"V","e","r","m","o","n","t">>>>,
    <<<<"V","A">>, <<"V","i","r","g","i","n","i","a">>>>,
    <<<<"W","A">>, <<"W","a","s","h","i","n","g","t","o","n">>>>,
    <<<<"W","V">>, <<"W","e","s","t"," ","V","i","r","g","i","n","i","a">>>>,
    <<<<"W","I">>, <<"W","i","s","c","o","n","s","i","n">>>>,
    <<<<"W","Y">>, <<"W","y","o","m","i","n","g">>>>,
    <<<<"D","C">>, <<"D","i","s","t","r","i","c","t"," ","o","f"," ","C","o","l","u","m","b","i","a">>>>,
    <<<<"P","R">>, <<"P","u","e","r","t","o"," ","R","i","c","o">>>>,
    <<<<"V","I">>, <<"U","S"," ","V","i","r","g","i","n"," ","I","s","l","a","n","d","s">>>>,
    <<<<"A","S">>, <<"A","m","e","r","i","c","a","n"," ","S","a","m","o","a">>>>,
    <<<<"G","U">>, <<"G","u","a","m">>>>,
    <<<<"M","P">>, <<"N","o","r","t","h","e","r","n"," ","M","a","r","i","a","n","a"," ","I","s","l","a","n","d","s">>>>
>>

\* The dict literal STATE_ALIASES.
STATE_ALIASES_Literal == <<
    <<<<"C","A","L","I","F">>, <<"C","A">>>>,
    <<<<"C","A","L","I">>, <<"C","A">>>>,
    <<<<"C","A","L","I","F","O","R","N","I","A">>, <<"C","A">>>>,
    <<<<"T","E","X","A","S">>, <<"T","X">>>>,
    <<<<"T","E","X">>, <<"T","X">>>>,
    <<<<"F","L","O","R","I","D","A">>, <<"F","L">>>>,
    <<<<"F","L","A">>, <<"F","L">>>>,
    <<<<"N","E","W"," ","Y","O","R","K">>, <<"N","Y">>>>,
    <<<<"N","E","W","Y","O","R","K">>, <<"N","Y">>>>,
    <<<<"N","Y"," ","S","T","A","T","E">>, <<"N","Y">>>>,
    <<<<"P","E","N","N","S","Y","L","V","A","N","I","A">>, <<"P","A">>>>,
    <<<<"P","E","N","N">>, <<"P","A">>>>,
    <<<<"M","A","S","S","A","C","H","U","S","E","T","T","S">>, <<"M","A">>>>,
    <<<<"M","A","S","S">>, <<"M","A">>>>,
    <<<<"N","O","R","T","H"," ","C","A","R","O","L","I","N","A">>, <<"N","C">>>>,
    <<<<"N"," ","C","A","R","O","L","I","N","A">>, <<"N","C">>>>,
    <<<<"N",".","C",".">>, <<"N","C">>>>,
    <<<<"S","O","U","T","H"," ","C","A","R","O","L","I","N","A">>, <<"S","C">>>>,
    <<<<"S"," ","C","A","R","O","L","I","N","A">>, <<"S","C">>>>,
    <<<<"S",".","C",".">>, <<"S","C">>>>,
    <<<<"N","E","W"," ","J","E","R","S","E","Y">>, <<"N","J">>>>,
    <<<<"N"," ","J","E","R","S","E","Y">>, <<"N","J">>>>,
    <<<<"N",".","J",".">>, <<"N","J">>>>,
    <<<<"N","E","W"," ","H","A","M","P","S","H","I","R","E">>, <<"N","H">>>>,
    <<<<"N"," ","H","A","M","P","S","H","I","R","E">>, <<"N","H">>>>,
    <<<<"N",".","H",".">>, <<"N","H">>>>,
    <<<<"N","E","W"," ","M","E","X","I","C","O">>, <<"N","M">>>>,
    <<<<"N"," ","M","E","X","I","C","O">>, <<"N","M">>>>,
    <<<<"N",".","M",".">>, <<"N","M">>>>,
    <<<<"W","E","S","T"," ","V","I","R","G","I","N","I","A">>, <<"W","V">>>>,
    <<<<"W"," ","V","I","R","G","I","N","I","A">>, <<"W","V">>>>,
    <<<<"W",".","V",".">>, <<"W","V">>>>,
    <<<<"N","O","R","T","H"," ","D","A","K","O","T","A">>, <<"N","D">>>>,
    <<<<"N"," ","D","A","K","O","T","A">>, <<"N","D">>>>,
    <<<<"N",".","D",".">>, <<"N","D">>>>,
    <<<<"S","O","U","T","H"," ","D","A","K","O","T","A">>, <<"S","D">>>>,
    <<<<"S"," ","D","A","K","O","T","A">>, <<"S","D">>>>,
    <<<<"S",".","D",".">>, <<"S","D">>>>,
    <<<<"W","A","S","H","I","N","G","T","O","N">>, <<"W","A">>>>,
    <<<<"W","A","S","H">>, <<"W","A">>>>,
    <<<<"D","I","S","T","R","I","C","T"," ","O","F"," ","C","O","L","U","M","B","I","A">>, <<"D","C">>>>,
    <<<<"D",".","C",".">>, <<"D","C">>>>,
    <<<<"W","A","S","H","I","N","G","T","O","N"," ","D","C">>, <<"D","C">>>>,
    <<<<"P","U","E","R","T","O"," ","R","I","C","O">>, <<"P","R">>>>
>>

\* {full_name.upper(): abbrev for abbrev, full_name in US_STATES.items()}
FullNameToAbbrev(states) ==
    [i \in 1..Len(states) |-> <<StrUpper(states[i][2]), states[i][1]>>]

\* ------------------------------------------------------------ StateValidator
\* The module tables a StateValidator field refers to: __init__ stores
\* references to the three module dicts, not copies.
Table(ref) ==
    CASE ref = "US_STATES" -> US_STATES
      [] ref = "STATE_ALIASES" -> STATE_ALIASES
      [] ref = "FULL_NAME_TO_ABBREV" -> FULL_NAME_TO_ABBREV

\* StateValidator(): the new object's fields.
NewStateValidator ==
    [valid_states |-> "US_STATES",
     aliases |-> "STATE_ALIASES",
     full_names |-> "FULL_NAME_TO_ABBREV"]

\* f"{abbrev} ({full_name})"
Suggestion(abbrev, full_name) == abbrev \o <<" ", "(">> \o full_name \o <<")">>

\* The least index of a non-empty set of indexes: where a for loop that
\* returns at its first hit leaves.
FirstOfMutLast(hits) == CHOOSE i \in hits : \A j \in hits : i >= j

FirstOf(hits) == CHOOSE i \in hits : \A j \in hits : i <= j

\* First loop of _find_closest_match: the items of valid_states whose code
\* the input starts with, or whose code starts with the input's first two
\* characters.
AbbrevHits(self, invalid_input) ==
    LET valid_states == Table(self.valid_states)
    IN  {i \in 1..Len(valid_states) :
            \/ StartsWith(invalid_input, Take(valid_states[i][1], 2))
            \/ StartsWith(valid_states[i][1], Take(invalid_input, 2))}

\* Second loop: the items whose upper-cased full name contains the input,
\* starts with it, or has a word that starts with it.
FullNameHits(self, invalid_input) ==
    LET valid_states == Table(self.valid_states)
    IN  {i \in 1..Len(valid_states) :
            LET full_name == StrUpper(valid_states[i][2])
                words == Split(full_name)
            IN  \/ IsSubstring(invalid_input, full_name)
                \/ StartsWith(full_name, invalid_input)
                \/ \E w \in 1..Len(words) : StartsWith(words[w], invalid_input)}

\* Third loop: the aliases that contain the input or start with it.
AliasHits(self, invalid_input) ==
    LET aliases == Table(self.aliases)
    IN  {i \in 1..Len(aliases) :
            \/ IsSubstring(invalid_input, aliases[i][1])
            \/ StartsWith(aliases[i][1], invalid_input)}

\* StateValidator._find_closest_match: the suggestion or None returned; the
\* subscript self.valid_states[abbrev] raises KeyError for a missing key.
FindClosestMatch(self, given) ==
    LET invalid_input == StrUpper(given)
        valid_states == Table(self.valid_states)
        aliases == Table(self.aliases)
        abbrevs == AbbrevHits(self, invalid_input)
        names == FullNameHits(self, invalid_input)
        found == AliasHits(self, invalid_input)
    IN  IF abbrevs # {}
        THEN LET item == valid_states[FirstOf(abbrevs)]
             IN  Returned(Suggestion(item[1], Lookup(valid_states, item[1])))
        ELSE IF names # {}
        THEN LET item == valid_states[FirstOf(names)]
             IN  Returned(Suggestion(item[1], item[2]))
        ELSE IF found # {}
        THEN LET abbrev == aliases[FirstOf(found)][2]
             IN  IF HasKey(valid_states, abbrev)
                 THEN Returned(Suggestion(abbrev, Lookup(valid_states, abbrev)))
                 ELSE Raised(Builtin("KeyError"))
        ELSE Returned(None)

\* `not state_input or not state_input.strip()`
BlankStateMutNoStrip(state_input) == ~Truthy(state_input)

BlankState(state_input) ==
    ~Truthy(state_input) \/ ~Truthy(Strip(state_input))

\* state_input.strip().upper()
CleanInputMutNoUpper(state_input) == Strip(state_input)

CleanInput(state_input) == StrUpper(Strip(state_input))

\* The three exact matches of validate_state, in the order tried: the
\* code returned, or None when none of the tables has the key.
ExactMatchMutAliasText(self, clean_input) ==
    IF HasKey(Table(self.valid_states), clean_input)
    THEN clean_input
    ELSE IF HasKey(Table(self.aliases), clean_input)
    THEN clean_input
    ELSE IF HasKey(Table(self.full_names), clean_input)
    THEN Lookup(Table(self.full_names), clean_input)
    ELSE None

ExactMatch(self, clean_input) ==
    IF HasKey(Table(self.valid_states), clean_input)
    THEN clean_input
    ELSE IF HasKey(Table(self.aliases), clean_input)
    THEN Lookup(Table(self.aliases), clean_input)
    ELSE IF HasKey(Table(self.full_names), clean_input)
    THEN Lookup(Table(self.full_names), clean_input)
    ELSE None

\* StateValidator.validate_state: the tuple (is_valid, normalized_state,
\* suggestion) returned, or the exception raised.
ValidateState(self, state_input) ==
    IF BlankState(state_input)
    THEN Returned(<<TRUE, None, None>>)
    ELSE LET clean_input == CleanInput(state_input)
             matched == ExactMatch(self, clean_input)
         IN  IF matched # None
             THEN Returned(<<TRUE, matched, None>>)
             ELSE LET suggestion == FindClosestMatch(self, clean_input)
                  IN  IF suggestion.kind = "raise"
                      THEN suggestion
                      ELSE Returned(<<FALSE, None, suggestion.value>>)

\* StateValidator.get_state_full_name
GetStateFullName(self, state_abbrev) ==
    LET key == IF Truthy(state_abbrev) THEN StrUpper(state_abbrev) ELSE None
    IN  IF HasKey(Table(self.valid_states), key)
        THEN Returned(Lookup(Table(self.valid_states), key))
        ELSE Returned(None)

GetAllStatesMutNoCopy(self) ==
    [ref |-> self.valid_states, items |-> Table(self.valid_states)]

\* StateValidator.get_all_states: a new dict with the items of valid_states.
\* `ref` says which object the caller now holds.
GetAllStates(self) ==
    [ref |-> "new dict", items |-> Table(self.valid_states)]

\* ------------------------------------------------------------ StateValidator calls
MaxValidators == 2

NoVCall == [op |-> "none"]
NoDict == [ref |-> "none", items |-> <<>>]

\* validator = StateValidator()
Instantiate ==
    /\ pc = "idle"
    /\ vcall = NoVCall
    /\ Len(validators) < MaxValidators
    /\ validators' = Append(validators, NewStateValidator)
    /\ UNCHANGED <<US_STATES, STATE_ALIASES, FULL_NAME_TO_ABBREV, vcall,
                   earlier, all_states>>
    /\ UNCHANGED client_vars
    /\ UNCHANGED gui_vars

\* validators[v].validate_state(state_input); `origin` records where the
\* caller took the text from.
ValidateStateCall(v, origin, state_input) ==
    /\ pc = "idle"
    /\ vcall = NoVCall
    /\ v \in 1..Len(validators)
    /\ vcall' = [op |-> "validate_state", self |-> v, origin |-> origin,
                 arg |-> state_input,
                 result |-> ValidateState(validators[v], state_input)]
    /\ UNCHANGED <<US_STATES, STATE_ALIASES, FULL_NAME_TO_ABBREV, validators,
                   earlier, all_states>>
    /\ UNCHANGED client_vars
    /\ UNCHANGED gui_vars

\* validators[v].get_state_full_name(state_abbrev)
GetStateFullNameCall(v, state_abbrev) ==
    /\ pc = "idle"
    /\ vcall = NoVCall
    /\ v \in 1..Len(validators)
    /\ vcall' = [op |-> "get_state_full_name", self |-> v,
                 origin |-> [table |-> "text", index |-> 0, casing |-> "as is"],
                 arg |-> state_abbrev,
                 result |-> GetStateFullName(validators[v], state_abbrev)]
    /\ UNCHANGED <<US_STATES, STATE_ALIASES, FULL_NAME_TO_ABBREV, validators,
                   earlier, all_states>>
    /\ UNCHANGED client_vars
    /\ UNCHANGED gui_vars

\* all_states = validators[v].get_all_states()
GetAllStatesCall(v) ==
    /\ pc = "idle"
    /\ vcall = NoVCall
    /\ v \in 1..Len(validators)
    /\ all_states' = GetAllStates(validators[v])
    /\ vcall' = [op |-> "get_all_states", self |-> v,
                 origin |-> [table |-> "text", index |-> 0, casing |-> "as is"],
                 arg |-> None,
                 result |-> Returned(None)]
    /\ UNCHANGED <<US_STATES, STATE_ALIASES, FULL_NAME_TO_ABBREV, validators,
                   earlier>>
    /\ UNCHANGED client_vars
    /\ UNCHANGED gui_vars

\* What a caller does to the dict it got: del d[key], d[key] = value.
DictAfter(d, m) ==
    IF m.kind = "del"
    THEN SelectSeq(d, LAMBDA item : item[1] # m.key)
    ELSE IF HasKey(d, m.key)
    THEN [i \in 1..Len(d) |->
            IF d[i][1] = m.key THEN <<m.key, m.value>> ELSE d[i]]
    ELSE Append(d, <<m.key, m.value>>)

Mutations == {
    [kind |-> "del", key |-> <<"A","L">>, value |-> <<>>],
    [kind |-> "set", key |-> <<"Z","Y">>, value |-> <<"Z","y","z","z","y">>] }

\* The caller changes the dict held in all_states; the change lands in the
\* object all_states refers to.
MutateAllStates(m) ==
    /\ pc = "idle"
    /\ vcall = NoVCall
    /\ all_states # NoDict
    /\ m.kind = "del" => HasKey(all_states.items, m.key)
    /\ all_states' = [all_states EXCEPT !.items = DictAfter(@, m)]
    /\ IF all_states.ref = "US_STATES"
       THEN US_STATES' = DictAfter(US_STATES, m)
       ELSE UNCHANGED US_STATES
    /\ UNCHANGED <<STATE_ALIASES, FULL_NAME_TO_ABBREV, validators, vcall,
                   earlier>>
    /\ UNCHANGED client_vars
    /\ UNCHANGED gui_vars

\* The caller keeps the last validate_state call to compare a later one with.
Remember ==
    /\ pc = "idle"
    /\ vcall.op = "validate_state"
    /\ earlier' = vcall
    /\ UNCHANGED <<US_STATES, STATE_ALIASES, FULL_NAME_TO_ABBREV, validators,
                   vcall, all_states>>
    /\ UNCHANGED client_vars
    /\ UNCHANGED gui_vars

\* The caller has taken the result of the last StateValidator call.
TakeResult ==
    /\ pc = "idle"
    /\ vcall # NoVCall
    /\ vcall' = NoVCall
    /\ UNCHANGED <<US_STATES, STATE_ALIASES, FULL_NAME_TO_ABBREV, validators,
                   earlier, all_states>>
    /\ UNCHANGED client_vars
    /\ UNCHANGED gui_vars

\* ------------------------------------------------------------ state inputs
\* A table key as a user may type it.
Casings == {"upper", "lower", "mixed"}

MixedCase(s) ==
    [i \in 1..Len(s) |->
        IF i % 2 = 1 THEN UpperChar(s[i])[1] ELSE LowerChar(s[i])[1]]

Cased(s, casing) ==
    CASE casing = "upper" -> StrUpper(s)
      [] casing = "lower" -> StrLower(s)
      [] casing = "mixed" -> MixedCase(s)

TableNames == {"US_STATES", "STATE_ALIASES", "FULL_NAME_TO_ABBREV"}

\* The three tables as written in the source.
LiteralTable(name) ==
    CASE name = "US_STATES" -> US_STATES_Literal
      [] name = "STATE_ALIASES" -> STATE_ALIASES_Literal
      [] name = "FULL_NAME_TO_ABBREV" -> FullNameToAbbrev(US_STATES_Literal)

\* Other texts: absent, empty, whitespace, padded, one character,
\* punctuation, non-ASCII, prefixes and fragments of names and aliases.
TextInputs == {
    None, <<>>, <<" ">>, <<" ","\t","\n">>, <<"Z","y","z","z","y">>,
    <<"f","l">>, <<" ","f","l"," ">>, <<"C","a","l","i","f">>,
    <<"c","A","l","I","f","\n">>, <<"n","e","w"," ","y","o","r","k">>,
    <<"W","a","s","h","i","n","g","t","o","n"," ","D","C">>, <<"C">>,
    <<"C","a","l">>, <<"Y","o","r">>, <<"N",".","C">>,
    <<"e","w","y","o","r">>, <<"!">>, <<"?","!">>, <<"é">>, <<"ß">>,
    <<"X">>, <<"Q">>, <<"Z","Z">>, <<"N","e","w">>,
    <<"r","o","l","i","n","a">>, <<"D","a","k","o","t","a">>,
    <<"I","s","l","a","n","d">>, <<"x"," ","y">>, <<"1","2">>, <<"O">>,
    <<"i","r","g","i","n">>,
    <<" "," ","n","y"," ","s","t","a","t","e"," "," ">>, <<".">>, <<"-">>,
    <<"s"," ","c">>, <<"o","f">>, <<"U">>, <<"F","l","a",".">>,
    <<"T","e","x","a","s","s">>, <<"y","l","v","a","n">>,
    <<"a","s","h","i","n","g","t","o","n"," ","d">>, <<"h">>,
    <<"o","r","k">> }

FromText == [table |-> "text", index |-> 0, casing |-> "as is"]

\* Fragments of a table key: its first characters, and all but its first.
MaxFragment == 3

Fragments(key) == {Take(key, k) : k \in 1..MaxFragment} \cup {Tail(key)}

\* ------------------------------------------------------------ application
\* WeatherAppController before __init__: no window, nothing reported.
NotStarted ==
    [phase |-> "not started", root |-> FALSE, scheduled |-> FALSE,
     dialogs |-> <<>>, printed |-> <<>>]

NoHandler == [name |-> "none", stage |-> "none"]

\* The labels before any handler has written them.
NoWidgets == [status_label |-> <<>>, shown |-> <<>>, dialogs |-> <<>>]

\* WeatherAppController.__init__ up to the call of _initialize_services.
StartApplication ==
    /\ app.phase = "not started"
    /\ pc = "idle" /\ ctor = NoCtor /\ client = NoClient
    /\ app' = [app EXCEPT !.phase = "initializing"]
    /\ UNCHANGED <<handler, widgets, history>>
    /\ UNCHANGED client_vars
    /\ UNCHANGED validator_vars

\* _initialize_services: self.api = WeatherAPI(WEATHER_API_KEY)
InitializeServices ==
    /\ app.phase = "initializing"
    /\ ctor = NoCtor
    /\ Construct(WEATHER_API_KEY)

\* How the steps of _initialize_application after the services can go:
\* all succeed, or one raises before the window exists.
Setups == {"ok", "raises before window"}

\* The rest of _initialize_application and its two handlers: an exception
\* of the constructor or of a later step is reported in one dialog and
\* __init__ returns; self.root is set only by _setup_gui.
InitializeApplication(setup) ==
    /\ app.phase = "initializing"
    /\ ctor # NoCtor
    /\ app' =
         IF ctor.result = "raise"
         THEN [app EXCEPT !.phase = "constructed",
                          !.dialogs = Append(@, "API Configuration Error")]
         ELSE IF setup = "raises before window"
         THEN [app EXCEPT !.phase = "constructed",
                          !.dialogs = Append(@, "Initialization Error")]
         ELSE [app EXCEPT !.phase = "constructed", !.root = TRUE,
                          !.scheduled = TRUE]
    /\ UNCHANGED <<handler, widgets, history>>
    /\ UNCHANGED client_vars
    /\ UNCHANGED validator_vars

\* WeatherAppController.run
RunMutNoCheck ==
    /\ app.phase = "constructed"
    /\ app' = [app EXCEPT !.phase = "mainloop"]
    /\ UNCHANGED <<handler, widgets, history>>
    /\ UNCHANGED client_vars
    /\ UNCHANGED validator_vars

Run ==
    /\ app.phase = "constructed"
    /\ app' = IF app.root
              THEN [app EXCEPT !.phase = "mainloop"]
              ELSE [app EXCEPT !.phase = "exited",
                               !.printed =
                                  Append(@, "Application failed to initialize.")]
    /\ UNCHANGED <<handler, widgets, history>>
    /\ UNCHANGED client_vars
    /\ UNCHANGED validator_vars

\* The user closes the window between two handlers: mainloop returns.
CloseWindow ==
    /\ app.phase = "mainloop"
    /\ pc = "idle"
    /\ handler.stage \in {"none", "ended"}
    /\ app' = [app EXCEPT !.phase = "exited"]
    /\ UNCHANGED <<handler, widgets, history>>
    /\ UNCHANGED client_vars
    /\ UNCHANGED validator_vars

\* ------------------------------------------------------------ search handler
Letter == Lower \cup Upper

\* text.replace(' ', '').replace('-', '')
Without(text) == SelectSeq(text, LAMBDA c : c # " " /\ c # "-")

AllDigits(s) == \A i \in 1..Len(s) : s[i] \in Digit

\* ^\d{5}-\d{4}$
ZipPlusFour(text) ==
    /\ Len(text) = 10
    /\ AllDigits(SubSeq(text, 1, 5))
    /\ text[6] = "-"
    /\ AllDigits(SubSeq(text, 7, 10))

\* ^[A-Za-z]\d[A-Za-z]\s?\d[A-Za-z]\d$
CanadianCode(text) ==
    \E w \in {0, 1} :
        /\ Len(text) = 6 + w
        /\ text[1] \in Letter /\ text[2] \in Digit /\ text[3] \in Letter
        /\ w = 1 => text[4] \in Whitespace
        /\ text[4 + w] \in Digit
        /\ text[5 + w] \in Letter
        /\ text[6 + w] \in Digit

\* ^[A-Za-z]{1,2}\d{1,2}[A-Za-z]?\s?\d[A-Za-z]{2}$
UKCode(text) ==
    \E a \in {1, 2}, d \in {1, 2}, l \in {0, 1}, w \in {0, 1} :
        /\ Len(text) = a + d + l + w + 3
        /\ \A i \in 1..a : text[i] \in Letter
        /\ \A i \in (a + 1)..(a + d) : text[i] \in Digit
        /\ l = 1 => text[a + d + 1] \in Letter
        /\ w = 1 => text[a + d + l + 1] \in Whitespace
        /\ text[a + d + l + w + 1] \in Digit
        /\ text[a + d + l + w + 2] \in Letter
        /\ text[a + d + l + w + 3] \in Letter

\* WeatherEventHandlers._is_zip_code, for a text without a final newline
\* (its caller has stripped it).
IsZipCode(text) ==
    \/ Len(Without(text)) = 5 /\ AllDigits(Without(text))
    \/ Len(Without(text)) = 9 /\ AllDigits(Without(text))
    \/ ZipPlusFour(text)
    \/ CanadianCode(text)
    \/ UKCode(text)

\* WeatherEventHandlers._validate_state_input: whether the handler goes
\* on, the state it goes on with, and the dialogs shown.
ValidateStateInputMutRawText(state_input) ==
    [is_valid |-> TRUE, state |-> state_input, dialogs |-> <<>>]

ValidateStateInput(state_input) ==
    IF ~Truthy(state_input) \/ ~Truthy(Strip(state_input))
    THEN [is_valid |-> TRUE, state |-> None, dialogs |-> <<>>]
    ELSE LET result == ValidateState(NewStateValidator, state_input).value
         IN  IF ~result[1]
             THEN [is_valid |-> FALSE, state |-> None,
                   dialogs |-> <<"Invalid State">>]
             ELSE [is_valid |-> TRUE, state |-> result[2], dialogs |-> <<>>]

\* location_display of get_weather
LocationDisplay(city, state) ==
    IF Truthy(state) THEN city \o <<",", " ">> \o state ELSE city

\* The frame of a handler: what it was started with, where it stands, and
\* what its lookups gave.
Frame(name, stage, texts, args) ==
    [name |-> name, stage |-> stage, texts |-> texts, args |-> args,
     rows |-> Len(history), lookups |-> <<>>, requests |-> <<>>,
     result |-> Pending]

\* No handler is running: the main loop can dispatch an event.
Dispatching ==
    /\ app.phase = "mainloop"
    /\ pc = "idle"
    /\ handler.stage \in {"none", "ended"}

Getting(location) ==
    <<"Getting weather for ">> \o location \o <<"...">>

\* handle_search_weather, and get_weather up to its call of the client.
HandleSearchWeather(city_text, state_text) ==
    /\ Dispatching
    /\ LET city == Strip(city_text)
           state_input == IF Truthy(state_text) THEN Strip(state_text)
                          ELSE None
           checked == IF Truthy(state_input)
                      THEN ValidateStateInput(state_input)
                      ELSE [is_valid |-> TRUE, state |-> None,
                            dialogs |-> <<>>]
           texts == <<city_text, state_text>>
       IN  IF ~Truthy(city)
           THEN /\ handler' = Frame("handle_search_weather", "ended", texts,
                                    <<>>)
                /\ widgets' = [widgets EXCEPT !.dialogs = <<"Warning">>]
           ELSE IF IsZipCode(city)
           THEN /\ handler' = Frame("handle_search_weather", "ended", texts,
                                    <<>>)
                /\ widgets' = [widgets EXCEPT !.dialogs = <<"Invalid Input">>]
           ELSE IF ~checked.is_valid
           THEN /\ handler' = Frame("handle_search_weather", "ended", texts,
                                    <<>>)
                /\ widgets' = [widgets EXCEPT !.dialogs = checked.dialogs]
           ELSE /\ handler' = Frame("handle_search_weather", "calling",
                                    texts, <<city, checked.state>>)
                /\ widgets' =
                     [widgets EXCEPT
                        !.dialogs = <<>>,
                        !.status_label =
                           Getting(LocationDisplay(city, checked.state))]
    /\ UNCHANGED <<app, history>>
    /\ UNCHANGED client_vars
    /\ UNCHANGED validator_vars

\* root.after(100, lambda: get_weather(default_city)): get_weather up to
\* its call of the client, with no state.
GetWeatherScheduled(default_city) ==
    /\ Dispatching
    /\ app.scheduled
    /\ app' = [app EXCEPT !.scheduled = FALSE]
    /\ handler' = Frame("get_weather", "calling", <<default_city>>,
                        <<default_city, None>>)
    /\ widgets' = [widgets EXCEPT
                     !.dialogs = <<>>,
                     !.status_label =
                        Getting(LocationDisplay(default_city, None))]
    /\ UNCHANGED history
    /\ UNCHANGED client_vars
    /\ UNCHANGED validator_vars

\* self.api.get_weather_from_api(city, state)
GetWeatherLookup ==
    /\ handler.name \in {"handle_search_weather", "get_weather"}
    /\ handler.stage = "calling"
    /\ Call("get_weather_from_api", handler.args[1], handler.args[2], None, 5)

\* int(round(x)) for x given in tenths: halves go to the even neighbour.
RoundHalfEven(tenths) ==
    LET q == tenths \div 10
        r == tenths % 10
    IN  IF r < 5 THEN q
        ELSE IF r > 5 THEN q + 1
        ELSE IF q % 2 = 0 THEN q ELSE q + 1

\* The record add_weather_record writes, without its date and time.
Row(city, weather_data) ==
    [City |-> city,
     Temperature_F |-> RoundHalfEven(NumberOf(weather_data.temperature)),
     Description |-> weather_data.description.v,
     Humidity_Percent |-> weather_data.humidity.v]

\* The exception of the display update of get_weather for a reading, or
\* NoExc: the format code .0f needs a number, title() a string.
DisplayRaises(weather_data) ==
    IF weather_data.temperature.j = "str" THEN Builtin("ValueError")
    ELSE IF weather_data.temperature.j \notin {"number", "bool"}
    THEN Builtin("TypeError")
    ELSE IF weather_data.description.j # "str" THEN Builtin("AttributeError")
    ELSE NoExc

\* The except clauses of get_weather, in their order: the dialog's title
\* and the status text.
GetWeatherHandlerMutFirstClause(e) ==
    [dialog |-> "Error", status |-> <<"City not found">>]

GetWeatherHandler(e) ==
    IF e.type = "KeyError"
    THEN [dialog |-> "Error", status |-> <<"City not found">>]
    ELSE IF e.type = "WeatherAPIError"
    THEN [dialog |-> "API Error", status |-> <<"API error">>]
    ELSE IF e.type = "ValueError"
    THEN [dialog |-> "Configuration Error",
          status |-> <<"Configuration error">>]
    ELSE IF e.type = "RequestException"
    THEN [dialog |-> "Network Error", status |-> <<"Network error">>]
    ELSE [dialog |-> "Error", status |-> <<"Unexpected error">>]

Updated(location) == <<"Weather updated for ">> \o location

\* The client's call is over and its caller has the result.
Returning ==
    /\ pc' = "idle"
    /\ call' = NoCall
    /\ location_query' = None
    /\ response' = NoResponse
    /\ outcome' = Pending
    /\ sent' = <<>>
    /\ UNCHANGED <<WEATHER_API_KEY, client, ctor>>

\* get_weather from the return of the client to its end: the display,
\* _save_weather_to_history and add_weather_record, the status label, the
\* except clauses. `written` says whether the append to the file succeeds;
\* a failure is caught and printed.
GetWeatherFinish(written) ==
    /\ handler.name \in {"handle_search_weather", "get_weather"}
    /\ handler.stage = "calling"
    /\ pc = "done"
    /\ LET location == LocationDisplay(handler.args[1], handler.args[2])
           e == IF outcome.kind = "raise" THEN outcome.exc
                ELSE DisplayRaises(outcome.value)
           caught == GetWeatherHandler(e)
       IN  /\ handler' = [handler EXCEPT !.stage = "ended",
                                         !.lookups = <<outcome>>,
                                         !.requests = sent,
                                         !.result = IF e = NoExc
                                                    THEN Returned(None)
                                                    ELSE Raised(e)]
           /\ IF e = NoExc
              THEN /\ widgets' = [widgets EXCEPT
                                    !.shown = <<location, outcome.value>>,
                                    !.status_label = Updated(location)]
                   /\ history' = IF written
                                 THEN Append(history,
                                             Row(location, outcome.value))
                                 ELSE history
              ELSE /\ widgets' = [widgets EXCEPT
                                    !.shown = IF outcome.kind = "return"
                                              THEN <<location>>
                                              ELSE @,
                                    !.dialogs = Append(@, caught.dialog),
                                    !.status_label = caught.status]
                   /\ UNCHANGED history
    /\ Returning
    /\ UNCHANGED app
    /\ UNCHANGED validator_vars

\* ------------------------------------------------------------ specification
Init ==
    /\ WEATHER_API_KEY \in EnvKeys
    /\ client = NoClient
    /\ ctor = NoCtor
    /\ pc = "idle"
    /\ call = NoCall
    /\ location_query = None
    /\ response = NoResponse
    /\ outcome = Pending
    /\ sent = <<>>
    /\ US_STATES = US_STATES_Literal
    /\ STATE_ALIASES = STATE_ALIASES_Literal
    /\ FULL_NAME_TO_ABBREV = FullNameToAbbrev(US_STATES_Literal)
    /\ validators = <<>>
    /\ vcall = NoVCall
    /\ earlier = NoVCall
    /\ all_states = NoDict
    /\ app = NotStarted
    /\ handler = NoHandler
    /\ widgets = NoWidgets
    /\ history = <<>>

Next ==
    \/ \E k \in KeyArgs : Construct(k)
    \/ \E op \in Ops, c \in Cities, s \in States, n \in Countries :
         \E d \in (IF op = "get_recent_weather_data" THEN 0..MaxDays ELSE {5}) :
            Call(op, c, s, n, d)
    \/ Validate
    \/ \E i \in 1..Len(CurrentBehaviours) : SendRequest(CurrentBehaviours[i])
    \/ CheckStatus
    \/ Parse
    \/ Recent
    \/ ForecastValidate
    \/ \E i \in 1..Len(ForecastBehaviours) :
         ForecastRequest(ForecastBehaviours[i])
    \/ ForecastProcess
    \/ Return

Spec == Init /\ [][Next]_vars

\* The state validator alone, called on every table key in every casing and
\* on the other texts.
ValidatorNext ==
    \/ Instantiate
    \/ \E v \in 1..MaxValidators, name \in TableNames, casing \in Casings :
         \E i \in 1..Len(LiteralTable(name)) :
            ValidateStateCall(v,
                [table |-> name, index |-> i, casing |-> casing],
                Cased(LiteralTable(name)[i][1], casing))
    \/ \E v \in 1..MaxValidators, text \in TextInputs :
         ValidateStateCall(v, FromText, text)
    \/ \E v \in 1..MaxValidators, name \in TableNames :
         \E i \in 1..Len(LiteralTable(name)) :
            \E text \in Fragments(StrLower(LiteralTable(name)[i][1])) :
                ValidateStateCall(v, FromText, text)
    \/ TakeResult

\* The client is left out: its module constant is fixed.
ValidatorInit == Init /\ WEATHER_API_KEY = K32

SpecValidator == ValidatorInit /\ [][ValidatorNext]_vars

\* Texts on which calls are repeated and compared.
RepeatedInputs == {
    None, <<" ">>, <<"a","l">>, <<"Z","Y">>, <<"C","a","l","i","f">>,
    <<"a","l","a","b","a","m","a">>, <<"a","l","a">>, <<"Z","y","z","z","y">>,
    <<"Y","o","r">>, <<"N",".","C">> }

AbbrevInputs == {None, <<"a","l">>, <<"Z","Y">>, <<"x","x">>}

\* Any number of validators, calls of the three public methods in any
\* order, the caller changing the dict it got, and a call kept for
\* comparison with a later one.
DeterminismNext ==
    \/ Instantiate
    \/ \E v \in 1..MaxValidators, text \in RepeatedInputs :
         ValidateStateCall(v, FromText, text)
    \/ \E v \in 1..MaxValidators, a \in AbbrevInputs :
         GetStateFullNameCall(v, a)
    \/ \E v \in 1..MaxValidators : GetAllStatesCall(v)
    \/ \E m \in Mutations : MutateAllStates(m)
    \/ Remember
    \/ TakeResult

SpecDeterminism == ValidatorInit /\ [][DeterminismNext]_vars

\* The validator and the client together, on fewer inputs.
CoreKeyArgs == {SENTINEL, K32, KInvalid}
CoreCities == {<<>>, Rio}
CoreStates == {None, FL}

CoreNext ==
    \/ Instantiate
    \/ \E v \in 1..MaxValidators, text \in RepeatedInputs :
         ValidateStateCall(v, FromText, text)
    \/ \E v \in 1..MaxValidators, a \in AbbrevInputs :
         GetStateFullNameCall(v, a)
    \/ \E v \in 1..MaxValidators : GetAllStatesCall(v)
    \/ \E m \in Mutations : MutateAllStates(m)
    \/ TakeResult
    \/ vcall = NoVCall /\ \E k \in CoreKeyArgs : Construct(k)
    \/ /\ vcall = NoVCall
       /\ \E op \in Ops, c \in CoreCities, s \in CoreStates :
            \E d \in (IF op = "get_recent_weather_data" THEN {1} ELSE {5}) :
               Call(op, c, s, None, d)
    \/ Validate
    \/ \E i \in 1..Len(CurrentBehaviours) : SendRequest(CurrentBehaviours[i])
    \/ CheckStatus
    \/ Parse
    \/ Recent
    \/ ForecastValidate
    \/ \E i \in 1..Len(ForecastBehaviours) :
         ForecastRequest(ForecastBehaviours[i])
    \/ ForecastProcess
    \/ Return

SpecCore == ValidatorInit /\ [][CoreNext]_vars

\* ------------------------------------------------------------ comparison
\* _format_comparison for one reading: {temperature:.1f} needs a number,
\* description.title() a string.  The exception raised, or NoExc.
FormatRaises(weather) ==
    IF weather.temperature.j = "str" THEN Builtin("ValueError")
    ELSE IF weather.temperature.j \notin {"number", "bool"}
    THEN Builtin("TypeError")
    ELSE IF weather.description.j # "str" THEN Builtin("AttributeError")
    ELSE NoExc

\* _format_comparison: the two cities' details, then the difference of
\* the temperatures and of the humidities, which need numbers.
FormatComparisonRaises(weather1, weather2) ==
    IF FormatRaises(weather1) # NoExc THEN FormatRaises(weather1)
    ELSE IF FormatRaises(weather2) # NoExc THEN FormatRaises(weather2)
    ELSE IF \/ weather1.humidity.j \notin {"number", "bool"}
            \/ weather2.humidity.j \notin {"number", "bool"}
    THEN Builtin("TypeError")
    ELSE NoExc

\* The text returned, by what it is made of.
Comparison(location1, weather1, location2, weather2) ==
    [location1 |-> location1, weather1 |-> weather1,
     location2 |-> location2, weather2 |-> weather2]

\* The except clauses of compare_cities_with_states.
CompareHandlerMutWrapAll(e) ==
    WeatherAPIError("Error comparing cities: ", StrOf(e), 0)

CompareHandler(e) ==
    IF e.type \in {"KeyError", "WeatherAPIError"} THEN e
    ELSE WeatherAPIError("Error comparing cities: ", StrOf(e), 0)

\* A caller invokes compare_cities_with_states(city1, city2, state1,
\* state2) of a CityComparison that holds the client.
CompareCitiesWithStates(city1, city2, state1, state2) ==
    /\ pc = "idle"
    /\ client # NoClient
    /\ handler.stage \in {"none", "ended"}
    /\ handler' = Frame("compare_cities_with_states", "first", <<>>,
                        <<city1, city2, state1, state2>>)
    /\ UNCHANGED <<app, widgets, history>>
    /\ UNCHANGED client_vars
    /\ UNCHANGED validator_vars

\* self.api.get_weather_from_api(city1, state1), then (city2, state2)
CompareLookup ==
    /\ handler.name = "compare_cities_with_states"
    /\ \/ /\ handler.stage = "first"
          /\ Call("get_weather_from_api", handler.args[1], handler.args[3],
                  None, 5)
       \/ /\ handler.stage = "second"
          /\ Call("get_weather_from_api", handler.args[2], handler.args[4],
                  None, 5)

\* compare_cities_with_states after a lookup: an exception of the lookup
\* ends it through the except clauses; the first reading leads to the
\* second lookup, the second one to _format_comparison and the return.
CompareReturned ==
    /\ handler.name = "compare_cities_with_states"
    /\ handler.stage \in {"first", "second"}
    /\ pc = "done"
    /\ LET location1 == LocationDisplay(handler.args[1], handler.args[3])
           location2 == LocationDisplay(handler.args[2], handler.args[4])
           e == IF outcome.kind = "raise" THEN outcome.exc
                ELSE IF handler.stage = "first" THEN NoExc
                ELSE FormatComparisonRaises(handler.lookups[1].value,
                                            outcome.value)
       IN  handler' =
             [handler EXCEPT
                !.lookups = Append(@, outcome),
                !.requests = @ \o sent,
                !.stage = IF outcome.kind = "return" /\ @ = "first"
                          THEN "second" ELSE "ended",
                !.result =
                   IF e # NoExc THEN Raised(CompareHandler(e))
                   ELSE IF handler.stage = "first" THEN Pending
                   ELSE Returned(Comparison(location1,
                                            handler.lookups[1].value,
                                            location2, outcome.value))]
    /\ Returning
    /\ UNCHANGED <<app, widgets, history>>
    /\ UNCHANGED validator_vars

\* ------------------------------------------------------------ ForecastPredict
\* location_query of get_5_day_forecast
ForecastPredictQuery(city, state) ==
    IF Truthy(state) THEN city \o Comma \o state ELSE city

\* _process_forecast_data and _format_forecast_display for a body whose
\* list holds no item: data['list'], data['city']['name'], and a text
\* that is only the heading for that name.
ProcessForecastData(data) ==
    LET forecast_list == PyGetKey(data, "list")
        city == PyGetKey(data, "city")
        city_name == PyGetKey(city.v, "name")
    IN  IF ~forecast_list.ok THEN Raised(Builtin(forecast_list.exc))
        ELSE IF ~city.ok THEN Raised(Builtin(city.exc))
        ELSE IF ~city_name.ok THEN Raised(Builtin(city_name.exc))
        ELSE Returned([heading |-> city_name.v, days |-> <<>>])

\* The except clauses of get_5_day_forecast.
ForecastPredictHandler(e) ==
    IF e.type \in {"KeyError", "WeatherAPIError"} THEN e
    ELSE WeatherAPIError("Error getting forecast: ", StrOf(e), 0)

\* get_5_day_forecast from requests.get on, for the provider's behaviour r.
ForecastPredictResult(r) ==
    IF r.kind = "exception"
    THEN IF "Timeout" \in r.classes
         THEN Raised(WeatherAPIError("Request timed out", <<>>, 0))
         ELSE IF "ConnectionError" \in r.classes
         THEN Raised(WeatherAPIError("Network connection error", <<>>, 0))
         ELSE Raised(ForecastPredictHandler(Exc(r.name, "", <<r.name>>, 0)))
    ELSE IF r.status_code = 401
    THEN Raised(WeatherAPIError("Invalid API key for forecast service",
                                <<>>, 0))
    ELSE IF r.status_code = 404
    THEN Raised(Exc("KeyError", "City not found", <<>>, 0))
    ELSE IF r.status_code # 200
    THEN Raised(WeatherAPIError("Forecast API returned status ", <<>>,
                                r.status_code))
    ELSE IF ~r.json.ok
    THEN Raised(ForecastPredictHandler(Builtin("ValueError")))
    ELSE LET o == ProcessForecastData(r.json.data)
         IN  IF o.kind = "raise" THEN Raised(ForecastPredictHandler(o.exc))
             ELSE o

\* Responses to the forecast request: bodies without a list, without a
\* city, and with both and no item.
ForecastPredictBehaviours ==
    << TransportErrors[1], TransportErrors[3], TransportErrors[4],
       NotOkResponse(401), NotOkResponse(404), NotOkResponse(500),
       Response(200, ErrorText, Unparsable),
       OkResponse(JObj(<<>>)),
       OkResponse(JNull),
       OkResponse(JObj([list |-> JArr(<<>>)])),
       OkResponse(JObj([list |-> JArr(<<>>),
                        city |-> JObj([name |-> JStr(Rio)])])) >>

\* ForecastPredict.get_5_day_forecast(city, state) of a ForecastPredict
\* that holds the client: the key check, the query, the request, the
\* status checks, the processing and the except clauses.
GetFiveDayForecast(city, state, r) ==
    /\ pc = "idle"
    /\ client # NoClient
    /\ handler.stage \in {"none", "ended"}
    /\ handler' =
         IF ~Truthy(client.api_key)
         THEN [Frame("get_5_day_forecast", "ended", <<>>, <<city, state>>)
                 EXCEPT !.result = Raised(WeatherAPIError(
                                      "API key not configured properly",
                                      <<>>, 0))]
         ELSE [Frame("get_5_day_forecast", "ended", <<>>, <<city, state>>)
                 EXCEPT !.requests =
                            <<Request(ForecastUrl,
                                      ForecastPredictQuery(city, state),
                                      client.api_key)>>,
                        !.result = ForecastPredictResult(r)]
    /\ UNCHANGED <<app, widgets, history>>
    /\ UNCHANGED client_vars
    /\ UNCHANGED validator_vars

\* ------------------------------------------------------------ the application
MaxRows == 2

Hot == <<"h", "o", "t">>
Fl == <<"f", "l">>
Zyzzy == <<"Z", "y", "z", "z", "y">>

\* What the user types into the city and state entries: nothing, blanks,
\* a padded city, a zip code; a code in lower case, raw text no table
\* knows.
CityTexts ==
    {<<>>, <<" ">>, <<" ">> \o Rio \o <<" ">>, <<"1", "2", "3", "4", "5">>}
StateTexts == {<<>>, <<" ">>, Fl, Zyzzy}

\* config default_city
DefaultCities == {Rio}

\* The provider's behaviours tried under the application: no answer, a
\* reading whose temperature ends in .5, a temperature that is
\* a string, one that is null, a description that is a number, a weather
\* field that is a mapping, an unknown city, a rejected key, a server
\* error, a body that does not parse.
AppBehaviours ==
    << TransportErrors[1],
       OkResponse(JObj([main |-> Main(745, 600), weather |-> GoodWeather])),
       OkResponse(JObj([main |-> JObj([temp |-> JStr(Hot),
                                       humidity |-> JNum(600)]),
                        weather |-> GoodWeather])),
       OkResponse(JObj([main |-> JObj([temp |-> JNull,
                                       humidity |-> JNum(600)]),
                        weather |-> GoodWeather])),
       OkResponse(JObj([main |-> GoodMain,
                        weather |-> JArr(<<JObj([description |-> JNum(5)])>>)])),
       OkResponse(IncompleteBodies[8]),
       NotOkResponse(404),
       NotOkResponse(401),
       NotOkResponse(500),
       Response(200, ErrorText, Unparsable) >>

AppNext ==
    \/ StartApplication
    \/ InitializeServices
    \/ \E setup \in Setups : InitializeApplication(setup)
    \/ Run
    \/ CloseWindow
    \/ \E default_city \in DefaultCities :
          Len(history) < MaxRows /\ GetWeatherScheduled(default_city)
    \/ \E city_text \in CityTexts, state_text \in StateTexts :
          Len(history) < MaxRows /\ HandleSearchWeather(city_text, state_text)
    \/ GetWeatherLookup
    \/ handler.stage = "calling" /\ Validate
    \/ \E i \in 1..Len(AppBehaviours) :
          handler.stage = "calling" /\ SendRequest(AppBehaviours[i])
    \/ handler.stage = "calling" /\ CheckStatus
    \/ handler.stage = "calling" /\ Parse
    \/ \E written \in BOOLEAN : GetWeatherFinish(written)

\* The key of the environment: a valid one, none, an invalid one.
AppInit == Init /\ WEATHER_API_KEY \in {K32, None, KInvalid}

SpecApp == AppInit /\ [][AppNext]_vars

\* ------------------------------------------------------------ the features
Lima == <<"L", "i", "m", "a">>

\* Arguments of the two feature classes: a blank city, two cities, one of
\* them padded; no state and a code.
FeatureCities == {<<" ">>, Rio, Lima, <<" ">> \o Rio}
FeatureStates == {None, FL}

FeaturesNext ==
    \/ client = NoClient /\ Construct(WEATHER_API_KEY)
    \/ \E city1 \in FeatureCities, city2 \in {Rio, Lima},
          state1 \in FeatureStates, state2 \in FeatureStates :
          CompareCitiesWithStates(city1, city2, state1, state2)
    \/ CompareLookup
    \/ Validate
    \/ \E i \in 1..Len(AppBehaviours) : SendRequest(AppBehaviours[i])
    \/ CheckStatus
    \/ Parse
    \/ CompareReturned
    \/ \E city \in FeatureCities, state \in FeatureStates,
          i \in 1..Len(ForecastPredictBehaviours) :
          GetFiveDayForecast(city, state, ForecastPredictBehaviours[i])

FeaturesInit == Init /\ WEATHER_API_KEY = K32

SpecFeatures == FeaturesInit /\ [][FeaturesNext]_vars

\* ------------------------------------------------------------ properties
\* get_weather_from_api has ended: its result is with its caller, the
\* program or get_recent_weather_data.
LookupEnded ==
    \/ call.op = "get_weather_from_api" /\ pc = "done"
    \/ pc = "recent"

\* get_weather_from_api is running, not yet ended.
LookupRunning ==
    /\ RunsLookup(call)
    /\ pc \in {"validate", "request", "status", "parse"}

\* A text that is absent, empty or made of whitespace only.
Blank(s) == s = None \/ \A i \in 1..Len(s) : s[i] \in Whitespace

RaisedType(t) == outcome.kind = "raise" /\ outcome.exc.type = t

\* C1: every call of get_weather_from_api ends in exactly one outcome: a
\* reading of exactly the fields temperature, description and humidity, or
\* one exception that is a ValueError, a KeyError or a WeatherAPIError; no
\* other exception class escapes, and a call has no outcome before it ends.
C1_ExactlyOneOutcome ==
    /\ LookupRunning => outcome = Pending
    /\ LookupEnded =>
         \/ /\ outcome.kind = "return"
            /\ DOMAIN outcome.value = {"temperature", "description", "humidity"}
         \/ /\ outcome.kind = "raise"
            /\ outcome.exc.type \in {"ValueError", "KeyError", "WeatherAPIError"}

\* A body of a type no lookup is defined on ends in the catch-all handler.
C1_Witness ==
    /\ LookupEnded
    /\ response.kind = "response"
    /\ response.status_code = 200
    /\ response.json.ok
    /\ response.json.data.j = "NoneType"
    /\ RaisedType("WeatherAPIError")
    /\ outcome.exc.msg = "Unexpected error occurred: "

\* C2: a 404 answer fails with KeyError, whose message holds the composed
\* location query, and no answer with another status fails with KeyError.
C2_NotFoundOnlyFor404 ==
    LookupEnded /\ response.kind = "response" =>
        /\ response.status_code = 404 =>
             /\ RaisedType("KeyError")
             /\ outcome.exc.arg = location_query
        /\ RaisedType("KeyError") => response.status_code = 404

\* The message the claim's classification gives a transport failure or a
\* status other than 200 and 404: one per kind, no two alike.
ExpectedMessage(r) ==
    IF r.kind = "exception"
    THEN IF "Timeout" \in r.classes THEN "Request timed out"
         ELSE IF "ConnectionError" \in r.classes
         THEN "Network connection error"
         ELSE "Network error occurred: "
    ELSE CASE r.status_code = 401 -> "Invalid API key"
           [] r.status_code = 429 -> "API rate limit exceeded"
           [] r.status_code = 500 -> "OpenWeatherMap server error"
           [] OTHER -> "API request failed with status "

\* C3: the outcome of the request is classified in a fixed order: timeout,
\* else connection failure, else any other transport exception (with its
\* message), and the status is looked at only when there is a response:
\* 401, 429, 500, any other status but 200 (with the status); each kind has
\* a message of its own.
C3_ClassificationOrder ==
    /\ LookupEnded /\ response.kind = "exception" =>
         /\ RaisedType("WeatherAPIError")
         /\ outcome.exc.msg = ExpectedMessage(response)
         /\ outcome.exc.status = 0
         /\ outcome.exc.msg = "Network error occurred: " =>
              outcome.exc.arg = <<response.name>>
    /\ LookupEnded /\ response.kind = "response"
         /\ response.status_code \notin {200, 404} =>
         /\ RaisedType("WeatherAPIError")
         /\ outcome.exc.msg = ExpectedMessage(response)
         /\ outcome.exc.msg = "API request failed with status " =>
              outcome.exc.status = response.status_code

\* A connect timeout, which is a connection error too, counts as a timeout.
C3_Witness ==
    /\ LookupEnded
    /\ response.kind = "exception"
    /\ response.name = "ConnectTimeout"
    /\ RaisedType("WeatherAPIError")
    /\ outcome.exc.msg = "Request timed out"

\* C4: every request of a constructed client carries as appid a key of
\* exactly 32 ASCII letters or digits.
C4_OnlyWellFormedKeysSent ==
    \A i \in 1..Len(sent) : WellFormedKey(sent[i].appid)

\* C5: with a city that is None, empty or whitespace only, the lookup fails
\* with ValueError and never reaches the request, whatever state and
\* country are.
C5_BlankCityNoRequest ==
    RunsLookup(call) /\ Blank(call.city_name) =>
        /\ sent = <<>>
        /\ pc \in {"validate", "done", "recent"}
        /\ LookupEnded => RaisedType("ValueError")

C5_Witness ==
    /\ LookupEnded
    /\ call.city_name = <<" ", "\t">>
    /\ call.state = FL
    /\ RaisedType("ValueError")
    /\ sent = <<>>

\* The query as the claim words it: the trimmed city, then ',' and the
\* state when one is given, then ',' and the country when one is given or
\* defaulted to 'US' (a state given, no country given).
QueryAsWorded(city_name, state, country) ==
    LET c == IF Truthy(state) /\ ~Truthy(country) THEN US ELSE country
    IN  Strip(city_name)
        \o (IF Truthy(state) THEN Comma \o state ELSE <<>>)
        \o (IF Truthy(c) THEN Comma \o c ELSE <<>>)

\* The same with state and country trimmed as the city is.
QueryTrimmed(city_name, state, country) ==
    LET c == IF Truthy(state) /\ ~Truthy(country) THEN US ELSE country
    IN  Strip(city_name)
        \o (IF Truthy(state) THEN Comma \o Strip(state) ELSE <<>>)
        \o (IF Truthy(c) THEN Comma \o Strip(c) ELSE <<>>)

\* A request of the lookup has been composed.
QueryComposed == RunsLookup(call) /\ location_query # None

\* C6 as stated: the query is the trimmed city, ',' + state when a state is
\* given, ',' + country when a country is given or defaulted to 'US'.
C6_QueryAsStated ==
    QueryComposed =>
        location_query =
            QueryAsWorded(call.city_name, call.state, call.country)

\* C6, amended: the query is the trimmed city, then ',' + the trimmed state
\* when a state is given, then ',' + the trimmed country when a country is
\* given or defaulted, the country defaulting to 'US' exactly when a state
\* is given and no country is; and the request carries that query.
C6_QueryComposition ==
    /\ QueryComposed =>
         location_query =
             QueryTrimmed(call.city_name, call.state, call.country)
    /\ RunsLookup(call) =>
         \A i \in 1..Len(sent) : sent[i].q = location_query

\* A padded state with no country: 'Rio,FL,US' is what is sent.
C6_Witness ==
    /\ RunsLookup(call)
    /\ call.state = <<" ">> \o FL \o <<" ">>
    /\ ~Truthy(call.country)
    /\ Len(sent) = 1
    /\ sent[1].q = Rio \o Comma \o FL \o Comma \o US

\* A parsed body with everything the code reads: 'main' a dict with temp
\* and humidity, 'weather' a non-empty list whose first item is a dict with
\* a description.
WellFormedData(d) ==
    /\ d.j = "dict"
    /\ {"main", "weather"} \subseteq DOMAIN d.v
    /\ d.v.main.j = "dict"
    /\ {"temp", "humidity"} \subseteq DOMAIN d.v.main.v
    /\ d.v.weather.j = "list"
    /\ d.v.weather.v # <<>>
    /\ d.v.weather.v[1].j = "dict"
    /\ "description" \in DOMAIN d.v.weather.v[1].v

\* The lookup ended after a 200 response.
EndedOn200 ==
    /\ LookupEnded
    /\ response.kind = "response"
    /\ response.status_code = 200

\* C7: a 200 response that does not parse, or that parses to anything but a
\* well-formed body, gives WeatherAPIError: no reading, no KeyError, no
\* ValueError.
C7_IncompleteBodyGivesProviderError ==
    EndedOn200 /\ (~response.json.ok \/ ~WellFormedData(response.json.data))
        => RaisedType("WeatherAPIError")

\* C8: for a well-formed 200 response the reading is exactly main.temp,
\* weather[0].description and main.humidity of the payload, and holds no
\* other field.
C8_ReadingIsPayload ==
    EndedOn200 /\ response.json.ok /\ WellFormedData(response.json.data) =>
        /\ outcome.kind = "return"
        /\ DOMAIN outcome.value = {"temperature", "description", "humidity"}
        /\ outcome.value.temperature = response.json.data.v.main.v.temp
        /\ outcome.value.description =
               response.json.data.v.weather.v[1].v.description
        /\ outcome.value.humidity = response.json.data.v.main.v.humidity

\* 75.3, 'clear sky' and 60 come back as they came.
C8_Witness ==
    /\ EndedOn200
    /\ outcome.kind = "return"
    /\ outcome.value.temperature = JNum(753)
    /\ outcome.value.description = JStr(ClearSky)
    /\ outcome.value.humidity = JNum(600)

\* C9: a call of get_weather_from_api issues at most one request, none
\* for a blank city and exactly one otherwise, whatever that request's
\* outcome is.
C9_AtMostOneRequest ==
    RunsLookup(call) =>
        /\ Len(sent) <= 1
        /\ LookupEnded =>
             Len(sent) = IF Blank(call.city_name) THEN 0 ELSE 1

\* The request timed out and the call ended with that one request.
C9_Witness ==
    /\ LookupEnded
    /\ response.kind = "exception"
    /\ "Timeout" \in response.classes
    /\ Len(sent) = 1
    /\ RaisedType("WeatherAPIError")

\* C10: WeatherAPI(None), WeatherAPI("") and WeatherAPI of whitespace fail
\* with WeatherAPIError and give no object, whatever the environment holds;
\* an object holds the environment's key only if the argument was omitted,
\* and the key passed otherwise.
C10_ExplicitBlankKeyFails ==
    /\ ctor.result # "none" /\ ctor.arg # SENTINEL /\ Blank(ctor.arg) =>
         /\ ctor.result = "raise"
         /\ ctor.exc.type = "WeatherAPIError"
         /\ ctor.obj = NoClient
    /\ ctor.result = "object" /\ ctor.arg # SENTINEL =>
         ctor.obj.api_key = ctor.arg

\* None is passed while the environment holds a valid key.
C10_Witness ==
    /\ ctor.arg = None
    /\ ctor.result = "raise"
    /\ ctor.exc.type = "WeatherAPIError"
    /\ WEATHER_API_KEY = K32

\* C11: WeatherAPI(key) with a string that is not exactly 32 ASCII letters
\* or digits raises WeatherAPIError and gives no object; with exactly 32
\* ASCII letters or digits it gives an object and issues no request.
C11_KeyFormatEnforced ==
    ctor.result # "none" /\ ctor.arg # SENTINEL /\ ctor.arg # None =>
        IF WellFormedKey(ctor.arg)
        THEN ctor.result = "object" /\ sent = <<>>
        ELSE /\ ctor.result = "raise"
             /\ ctor.exc.type = "WeatherAPIError"
             /\ ctor.obj = NoClient

\* ------------------------------------------------------------ state properties
ValidateEnded == vcall.op = "validate_state"

\* The code a table key stands for: the code itself, the code of the full
\* name, the code the alias is listed with.
CodeOf(origin) ==
    IF origin.table = "STATE_ALIASES"
    THEN STATE_ALIASES_Literal[origin.index][2]
    ELSE US_STATES_Literal[origin.index][1]

Codes == {US_STATES_Literal[i][1] : i \in 1..Len(US_STATES_Literal)}

\* C12: validate_state of a key of any of the three tables, typed in upper,
\* lower or mixed case, returns (True, code, None) with the code that key
\* stands for; a full name that is also an alias gives the full name's code.
C12_TableKeysResolve ==
    ValidateEnded /\ vcall.origin.table \in TableNames =>
        vcall.result = Returned(<<TRUE, CodeOf(vcall.origin), None>>)

\* A full name that is also an alias key, typed in mixed case.
C12_Witness ==
    /\ ValidateEnded
    /\ vcall.origin.table = "FULL_NAME_TO_ABBREV"
    /\ vcall.origin.casing = "mixed"
    /\ HasKey(STATE_ALIASES_Literal, StrUpper(vcall.arg))
    /\ vcall.arg # StrUpper(vcall.arg)
    /\ vcall.result.kind = "return"
    /\ vcall.result.value[1]

\* C13: validate_state of any text returns, never raises, and the tuple is
\* (True, None, None), (True, c, None) with c one of the 56 codes, or
\* (False, None, s) with s None or a suggestion; "Zyzzy" gives the last.
C13_TotalAndShaped ==
    ValidateEnded =>
        /\ vcall.result.kind = "return"
        /\ LET r == vcall.result.value
           IN  /\ Len(r) = 3
               /\ IF r[1]
                  THEN r[3] = None /\ (r[2] = None \/ r[2] \in Codes)
                  ELSE r[2] = None
               /\ vcall.arg = <<"Z","y","z","z","y">> => ~r[1]
        /\ Cardinality(Codes) = 56

\* A non-ASCII text whose upper case is longer than the text.
C13_Witness ==
    /\ ValidateEnded
    /\ vcall.arg = <<"ß">>
    /\ vcall.result.kind = "return"
    /\ ~vcall.result.value[1]
    /\ vcall.result.value[3] # None

\* C14: validate_state of an absent, empty or all-whitespace text returns
\* (True, None, None).
C14_BlankIsValid ==
    ValidateEnded /\ Blank(vcall.arg) =>
        vcall.result = Returned(<<TRUE, None, None>>)

C14_Witness ==
    /\ ValidateEnded
    /\ vcall.arg = <<" ", "\t", "\n">>
    /\ vcall.result = Returned(<<TRUE, None, None>>)

\* The scan order as worded: every code in table order, then every full
\* name in table order, then every alias in table order; each candidate
\* with the code it suggests.
ScanOrder ==
    [i \in 1..Len(US_STATES_Literal) |->
        [kind |-> "code", text |-> US_STATES_Literal[i][1],
         code |-> US_STATES_Literal[i][1]]]
    \o [i \in 1..Len(US_STATES_Literal) |->
        [kind |-> "name", text |-> StrUpper(US_STATES_Literal[i][2]),
         code |-> US_STATES_Literal[i][1]]]
    \o [i \in 1..Len(STATE_ALIASES_Literal) |->
        [kind |-> "alias", text |-> STATE_ALIASES_Literal[i][1],
         code |-> STATE_ALIASES_Literal[i][2]]]

\* Position p starts a word of text, and input is a prefix of that word.
PrefixOfWordAt(input, text, p) ==
    /\ p = 1 \/ text[p - 1] \in Whitespace
    /\ p + Len(input) - 1 <= Len(text)
    /\ SubSeq(text, p, p + Len(input) - 1) = input
    /\ \A k \in 1..Len(input) : input[k] \notin Whitespace

\* Whether a candidate of the scan is a hit for the input, as worded.
Hits(candidate, input) ==
    CASE candidate.kind = "code" ->
            \/ StartsWith(input, candidate.text)
            \/ StartsWith(candidate.text, Take(input, 2))
      [] candidate.kind = "name" ->
            \/ IsSubstring(input, candidate.text)
            \/ StartsWith(candidate.text, input)
            \/ \E p \in 1..Len(candidate.text) :
                  PrefixOfWordAt(input, candidate.text, p)
      [] candidate.kind = "alias" ->
            \/ IsSubstring(input, candidate.text)
            \/ StartsWith(candidate.text, input)

\* 'CODE (Full Name)' with the code's own full name.
Suggested(code) ==
    code \o <<" ", "(">>
         \o US_STATES_Literal[CHOOSE i \in 1..Len(US_STATES_Literal) :
                                 US_STATES_Literal[i][1] = code][2]
         \o <<")">>

\* The suggestion of the first candidate that is a hit, None without one.
FirstHit(candidates, input) ==
    LET first(i) == /\ Hits(candidates[i], input)
                    /\ \A j \in 1..(i - 1) : ~Hits(candidates[j], input)
    IN  IF \E i \in 1..Len(candidates) : first(i)
        THEN Suggested(candidates[CHOOSE i \in 1..Len(candidates) :
                                     first(i)].code)
        ELSE None

\* The call got past the three exact matches.
NoExactMatch ==
    /\ ValidateEnded
    /\ vcall.result.kind = "return"
    /\ ~vcall.result.value[1]

\* C15: for a text that fails the three exact matches, the suggestion is
\* the first hit of the scan order (codes, then full names, then aliases,
\* each in table order), None only when nothing hits, and a suggestion is
\* always 'CODE (Full Name)' of one of the 56 codes.
C15_SuggestionIsFirstHit ==
    NoExactMatch =>
        LET suggestion == vcall.result.value[3]
        IN  /\ suggestion = FirstHit(ScanOrder, StrUpper(Strip(vcall.arg)))
            /\ suggestion # None =>
                 \E c \in Codes : suggestion = Suggested(c)

\* Nothing hits among the codes and the full names; an alias does.
C15_Witness ==
    /\ NoExactMatch
    /\ vcall.arg = <<"N", ".", "C">>
    /\ vcall.result.value[3] =
         <<"N","C"," ","(","N","o","r","t","h"," ",
           "C","a","r","o","l","i","n","a",")">>

\* C16: a validate_state call returns what an earlier call on the same text
\* returned, whichever validators made the two calls and whatever was
\* called, or done to a dict from get_all_states, in between.
C16_Deterministic ==
    ValidateEnded /\ earlier # NoVCall /\ vcall.arg = earlier.arg =>
        vcall.result = earlier.result

\* The same text on two validators, after the caller deleted that code
\* from the dict get_all_states gave it.
C16_Witness ==
    /\ ValidateEnded
    /\ earlier # NoVCall
    /\ vcall.arg = <<"a","l">>
    /\ earlier.arg = vcall.arg
    /\ earlier.self # vcall.self
    /\ all_states # NoDict
    /\ ~HasKey(all_states.items, <<"A","L">>)
    /\ vcall.result = Returned(<<TRUE, <<"A","L">>, None>>)

\* C17: no step of validate_state, get_state_full_name, get_all_states, of
\* a caller changing the dict it got, of get_weather_from_api or of
\* get_weather_forecast changes the three tables; the client object changes
\* only by a construction.
C17_NoSharedStateChange ==
    [][/\ US_STATES' = US_STATES
       /\ STATE_ALIASES' = STATE_ALIASES
       /\ FULL_NAME_TO_ABBREV' = FULL_NAME_TO_ABBREV
       /\ client' # client =>
            /\ call = NoCall /\ call' = NoCall
            /\ ctor'.result = "object"
            /\ client' = ctor'.obj]_vars

\* A lookup has ended on an existing client while the caller holds a dict
\* from get_all_states that it has changed.
C17_Witness ==
    /\ LookupEnded
    /\ client # NoClient
    /\ client.api_base_url = CurrentUrl
    /\ all_states # NoDict
    /\ all_states.items # US_STATES
    /\ US_STATES = US_STATES_Literal

\* ------------------------------------------------------------ forecast properties
ForecastCalled == call.op = "get_weather_forecast"

ForecastEnded == ForecastCalled /\ pc = "done"

\* The provider's list of a parsed body that is a mapping, empty without one.
ProviderList ==
    IF response.kind = "response" /\ response.json.ok
       /\ response.json.data.j = "dict"
       /\ "list" \in DOMAIN response.json.data.v
       /\ response.json.data.v.list.j = "list"
    THEN response.json.data.v.list.v
    ELSE <<>>

\* The items that count: the first 40 of the provider's list.
Counted == IF Len(ProviderList) < 40 THEN Len(ProviderList) ELSE 40

\* C18: a returned forecast has min(n, 40) entries for a provider list of n
\* items, and entry i holds item i's dt as a datetime, main.temp,
\* main.humidity and weather[0].description.
C18_ForecastEntries ==
    ForecastEnded /\ outcome.kind = "return" =>
        /\ Len(outcome.value) = Counted
        /\ \A i \in 1..Len(outcome.value) :
              LET entry == outcome.value[i]
                  item == ProviderList[i].v
              IN  /\ entry.datetime = FromTimestamp(item.dt.v)
                  /\ entry.temperature = item.main.v.temp
                  /\ entry.humidity = item.main.v.humidity
                  /\ entry.description = item.weather.v[1].v.description
                  /\ entry.city = call.city_name

\* 41 well-formed items give 40 entries, the last built from item 40.
C18_Witness ==
    /\ ForecastEnded
    /\ outcome.kind = "return"
    /\ Len(ProviderList) = 41
    /\ Len(outcome.value) = 40
    /\ outcome.value[40].temperature = JNum(740)

\* C19: get_weather_forecast composes the location query that
\* get_weather_from_api composes for the same city, state and country, sends
\* it in every request, and for an absent, empty or whitespace-only city
\* ends in an error without a request.
C19_ForecastSameRules ==
    ForecastCalled =>
        /\ location_query # None =>
              location_query
                = LocationQuery(call.city_name, call.state, call.country)
        /\ \A i \in 1..Len(sent) :
              sent[i].q
                = LocationQuery(call.city_name, call.state, call.country)
        /\ Blank(call.city_name) =>
              /\ sent = <<>>
              /\ pc \in {"validate", "done"}
              /\ pc = "done" => outcome.kind = "raise"
        /\ pc \in {"forecast_request", "forecast_process"} =>
              ~Blank(call.city_name) /\ location_query # None

\* A padded city, a padded state and no country: 'Rio,FL,US' is sent.
C19_Witness ==
    /\ ForecastCalled
    /\ call.city_name = <<" ">> \o Rio \o <<"\n">>
    /\ call.state = <<" ">> \o FL \o <<" ">>
    /\ call.country = None
    /\ Len(sent) = 1
    /\ sent[1].q = Rio \o Comma \o FL \o Comma \o US

\* Some item among the counted ones lacks dt, main or weather.
DefectiveItem ==
    \E i \in 1..Counted :
        \/ ProviderList[i].j # "dict"
        \/ {"dt", "main", "weather"} \ DOMAIN ProviderList[i].v # {}

\* The failures listed: empty city, transport failure, status other than
\* 200, unparsable body, defective item.
ForecastFailed ==
    \/ Blank(call.city_name)
    \/ response.kind = "exception"
    \/ response.kind = "response" /\ response.status_code # 200
    \/ response.kind = "response" /\ ~response.json.ok
    \/ DefectiveItem

\* C20: a get_weather_forecast call that fails raises WeatherAPIError, no
\* call raises anything else, and a call returns a list only when nothing
\* failed, with an entry for every counted item.
C20_ForecastFailsUniformly ==
    ForecastEnded =>
        /\ outcome.kind \in {"return", "raise"}
        /\ outcome.kind = "raise" => outcome.exc.type = "WeatherAPIError"
        /\ ForecastFailed => outcome.kind = "raise"
        /\ outcome.kind = "return" => Len(outcome.value) = Counted

\* The second item lacks 'weather': the entry built from the first is not
\* returned.
C20_Witness ==
    /\ ForecastEnded
    /\ Len(ProviderList) = 2
    /\ "weather" \notin DOMAIN ProviderList[2].v
    /\ "weather" \in DOMAIN ProviderList[1].v
    /\ outcome.kind = "raise"
    /\ outcome.exc.type = "WeatherAPIError"

\* C21: a 404 answer to get_weather_forecast ends the call with KeyError,
\* as it does for get_weather_from_api, and no other status does.
C21_ForecastNotFoundDistinct ==
    ForecastEnded /\ response.kind = "response" =>
        (response.status_code = 404 <=> RaisedType("KeyError"))

\* ------------------------------------------------------------ more lookup properties
\* C27: get_weather_from_api ends with KeyError only after a 404 answer:
\* not after a transport failure, another status, or a 200 answer of any
\* shape.
C27_KeyErrorMeansNotFound ==
    LookupEnded /\ RaisedType("KeyError") =>
        /\ response.kind = "response"
        /\ response.status_code = 404

\* The components of a query: the texts between its commas.
RECURSIVE ComponentsFrom(_, _)
ComponentsFrom(q, part) ==
    IF q = <<>>
    THEN <<part>>
    ELSE IF Head(q) = ","
    THEN <<part>> \o ComponentsFrom(Tail(q), <<>>)
    ELSE ComponentsFrom(Tail(q), Append(part, Head(q)))

Components(q) == ComponentsFrom(q, <<>>)

\* C29: every query sent by get_weather_from_api and get_weather_forecast
\* has no empty component (no two adjacent commas, no leading or trailing
\* comma) and no component with leading or trailing whitespace.
C29_NoEmptyComponent ==
    \A i \in 1..Len(sent) :
        \A k \in 1..Len(Components(sent[i].q)) :
            LET part == Components(sent[i].q)[k]
            IN  part # <<>> /\ Strip(part) = part

\* C28: when validate_state returns (True, c, None) with a code c, c is one
\* of the 56 codes and validate_state of c, on the same validator, returns
\* (True, c, None) again.
C28_NormalizationIdempotent ==
    ValidateEnded /\ vcall.result.kind = "return"
                  /\ vcall.result.value[1] /\ vcall.result.value[2] # None =>
        LET c == vcall.result.value[2]
        IN  /\ c \in Codes
            /\ ValidateState(validators[vcall.self], c)
                 = Returned(<<TRUE, c, None>>)

\* An alias in lower case, which is not its own normal form.
C28_Witness ==
    /\ ValidateEnded
    /\ vcall.origin.table = "STATE_ALIASES"
    /\ vcall.origin.casing = "lower"
    /\ vcall.result.kind = "return"
    /\ vcall.result.value[1]
    /\ vcall.result.value[2] # None
    /\ vcall.result.value[2] # StrUpper(vcall.arg)

\* ------------------------------------------------------------ application properties
\* WeatherAPI(WEATHER_API_KEY) raised and __init__ of the application has
\* returned.
KeyValidationFailed ==
    /\ app.phase \notin {"not started", "initializing"}
    /\ ctor.result = "raise"

\* C24: when the validation of the API key fails at start-up, the failure
\* is reported in one dialog, no main window exists, run() does not enter
\* the main loop, and no handler runs and no request is sent.
C24_NoWindowWithoutKey ==
    KeyValidationFailed =>
        /\ app.dialogs = <<"API Configuration Error">>
        /\ ~app.root
        /\ ~app.scheduled
        /\ app.phase # "mainloop"
        /\ client = NoClient
        /\ handler = NoHandler
        /\ call = NoCall
        /\ sent = <<>>

\* run() has returned after a failed validation.
C24_Witness ==
    /\ KeyValidationFailed
    /\ app.phase = "exited"
    /\ app.printed = <<"Application failed to initialize.">>
    /\ WEATHER_API_KEY = KInvalid

\* What handle_search_weather requires of the two entries: a city that is
\* not empty once trimmed and is not a zip or postal code, and a state
\* that is empty once trimmed or that validate_state accepts.
SearchAccepted(city_text, state_text) ==
    /\ Strip(city_text) # <<>>
    /\ ~IsZipCode(Strip(city_text))
    /\ \/ Strip(state_text) = <<>>
       \/ ValidateState(NewStateValidator, Strip(state_text)).value[1]

\* C22: handle_search_weather calls the client only when the entries are
\* accepted, and then with the trimmed city and with a state that is None
\* or one of the 56 codes; for rejected entries it ends without a call
\* and without a request.
C22_SearchCallsOnlyWhenAccepted ==
    handler.name = "handle_search_weather" =>
        LET city_text == handler.texts[1]
            state_text == handler.texts[2]
        IN  /\ ~SearchAccepted(city_text, state_text) =>
                 /\ handler.stage = "ended"
                 /\ handler.lookups = <<>>
                 /\ handler.requests = <<>>
                 /\ Len(widgets.dialogs) = 1
                 /\ call = NoCall
                 /\ sent = <<>>
            /\ handler.stage = "calling" =>
                 /\ SearchAccepted(city_text, state_text)
                 /\ handler.args[1] = Strip(city_text)
                 /\ handler.args[2] = None \/ handler.args[2] \in Codes
                 /\ handler.args[2] = None <=> Strip(state_text) = <<>>
            /\ call # NoCall =>
                 /\ handler.stage = "calling"
                 /\ call.op = "get_weather_from_api"
                 /\ call.city_name = handler.args[1]
                 /\ call.state = handler.args[2]

\* A search for ' Rio ' with state 'fl' has sent its request, for state
\* 'FL'.
C22_Witness ==
    /\ handler.name = "handle_search_weather"
    /\ handler.texts = << <<" ">> \o Rio \o <<" ">>, Fl >>
    /\ call # NoCall
    /\ call.city_name = Rio
    /\ call.state = FL
    /\ Len(sent) = 1

\* A run of get_weather, started by the search or by the timer of
\* start-up, has ended.
GetWeatherEnded ==
    /\ handler.name \in {"handle_search_weather", "get_weather"}
    /\ handler.stage = "ended"
    /\ handler.lookups # <<>>

LookupOf(h) == h.lookups[1]

ErrorStatuses ==
    {<<"API error">>, <<"Configuration error">>, <<"Network error">>,
     <<"Unexpected error">>}

\* C30: get_weather always ends with a final status: never the text
\* 'Getting weather for ...'; 'Weather updated for <location>' only when
\* the lookup returned a reading and the display shows it; 'City not
\* found' only when the lookup raised KeyError; otherwise one of the four
\* error texts; one error dialog for a failed lookup, none on success.
C30_TerminalStatus ==
    GetWeatherEnded =>
        LET location == LocationDisplay(handler.args[1], handler.args[2])
            lookup == LookupOf(handler)
            status == widgets.status_label
        IN  /\ status # Getting(location)
            /\ \/ status = Updated(location)
               \/ status = <<"City not found">>
               \/ status \in ErrorStatuses
            /\ status = Updated(location) =>
                 /\ lookup.kind = "return"
                 /\ widgets.shown = <<location, lookup.value>>
                 /\ widgets.dialogs = <<>>
            /\ status = <<"City not found">> =>
                 /\ lookup.kind = "raise"
                 /\ lookup.exc.type = "KeyError"
            /\ lookup.kind = "raise" => Len(widgets.dialogs) = 1
            /\ Len(widgets.dialogs) <= 1

\* A lookup answered 404 has ended in 'City not found' with one dialog.
C30_Witness ==
    /\ GetWeatherEnded
    /\ LookupOf(handler).kind = "raise"
    /\ LookupOf(handler).exc.type = "KeyError"
    /\ LookupOf(handler).exc.msg = "Location not found"
    /\ widgets.status_label = <<"City not found">>
    /\ widgets.dialogs = <<"Error">>

\* C23: a row is appended to the history only after a successful lookup:
\* a run of get_weather whose get_weather_from_api returned a reading has
\* appended exactly one row, for that location and reading; a run whose
\* lookup failed has appended none; the rows never become fewer.
C23_RowPerSuccessfulLookup ==
    GetWeatherEnded =>
        LET location == LocationDisplay(handler.args[1], handler.args[2])
            lookup == LookupOf(handler)
        IN  /\ Len(history) >= handler.rows
            /\ IF lookup.kind = "return"
               THEN /\ Len(history) = handler.rows + 1
                    /\ history[Len(history)] = Row(location, lookup.value)
               ELSE Len(history) = handler.rows

\* ------------------------------------------------------------ feature properties
Comparing == handler.name = "compare_cities_with_states"

\* The request get_weather_from_api sends for the k-th city of the frame.
RequestFor(h, k) ==
    Request(CurrentUrl, LocationQuery(h.args[k], h.args[k + 2], None),
            client.api_key)

\* C25: compare_cities_with_states makes its two lookups one after the
\* other: the second is called only after the first returned a reading, a
\* failed first lookup ends it with no request for city2, a KeyError or
\* WeatherAPIError of either lookup reaches the caller as it was raised,
\* and a result is returned only when both lookups returned a reading.
C25_ComparisonInSequence ==
    Comparing =>
        /\ handler.stage = "first" =>
             /\ handler.lookups = <<>>
             /\ handler.requests = <<>>
             /\ call # NoCall =>
                  /\ call.city_name = handler.args[1]
                  /\ call.state = handler.args[3]
             /\ \A i \in 1..Len(sent) : sent[i] = RequestFor(handler, 1)
        /\ handler.stage = "second" =>
             /\ Len(handler.lookups) = 1
             /\ handler.lookups[1].kind = "return"
             /\ handler.requests = <<RequestFor(handler, 1)>>
             /\ call # NoCall =>
                  /\ call.city_name = handler.args[2]
                  /\ call.state = handler.args[4]
             /\ \A i \in 1..Len(sent) : sent[i] = RequestFor(handler, 2)
        /\ handler.stage = "ended" =>
             /\ Len(handler.lookups) \in {1, 2}
             /\ Len(handler.requests) <= Len(handler.lookups)
             /\ \A i \in 1..Len(handler.requests) :
                   handler.requests[i] = RequestFor(handler, i)
             /\ Len(handler.lookups) = 2 <=>
                   handler.lookups[1].kind = "return"
             /\ \A i \in 1..Len(handler.lookups) :
                   /\ handler.lookups[i].kind = "raise"
                   /\ handler.lookups[i].exc.type
                         \in {"KeyError", "WeatherAPIError"}
                   => handler.result = handler.lookups[i]
             /\ handler.result.kind = "return" =>
                   /\ Len(handler.lookups) = 2
                   /\ handler.lookups[2].kind = "return"
                   /\ handler.result.value.weather1
                         = handler.lookups[1].value
                   /\ handler.result.value.weather2
                         = handler.lookups[2].value

\* Rio was found and Lima was not: two requests, and the caller gets the
\* KeyError of the second lookup.
C25_Witness ==
    /\ Comparing
    /\ handler.stage = "ended"
    /\ handler.args = <<Rio, Lima, FL, None>>
    /\ Len(handler.requests) = 2
    /\ handler.lookups[1].kind = "return"
    /\ handler.result.kind = "raise"
    /\ handler.result.exc.type = "KeyError"
    /\ handler.result.exc.msg = "Location not found"

\* C26: for a city and a state that is None or one of the 56 codes, the
\* query get_5_day_forecast(city, state) sends is the query
\* get_weather_from_api(city, state) sends, 'US' included when a state is
\* given.
C26_ForecastPredictSameQuery ==
    /\ handler.name = "get_5_day_forecast"
    /\ handler.stage = "ended"
    /\ ~CityRejected(handler.args[1])
    /\ Strip(handler.args[1]) = handler.args[1]
    /\ handler.args[2] = None \/ handler.args[2] \in Codes
    => /\ Len(handler.requests) = 1
       /\ handler.requests[1].q
             = LocationQuery(handler.args[1], handler.args[2], None)

====
